---- MODULE Spec2Model ----
(***************************************************************************)
(* Model of src/src/analysis/optimal_zones.py: the scan that scores grid   *)
(* points (calculate_optimal_zones, calculate_optimal_zones_with_progress),*)
(* categorize_zone, simple_kmeans and cluster_optimal_zones.               *)
(*                                                                         *)
(* Numbers are fixed point:                                                *)
(*   scores            1 = 10000              (Unit)                       *)
(*   wind speeds       1 m/s = 10000                                       *)
(*   distances         1 km = 10                                           *)
(*   scan coordinates  1 degree = 100                                      *)
(*   k-means arrays    integers in the caller's coordinate unit; the       *)
(*                     tolerance 1e-4 is 1/tolDen of that unit             *)
(* A float that is nan is the value NaN.  A centroid is the exact rational *)
(* (sx/n, sy/n); n = 0 is the mean of an empty slice, which numpy returns  *)
(* as nan.                                                                 *)
(***************************************************************************)
EXTENDS Integers, Sequences, FiniteSets, TLC

VARIABLES
    \* ---- simple_kmeans / cluster_optimal_zones
    gdf,              \* the zones handed to cluster_optimal_zones
    n_clusters,       \* its n_clusters argument
    np_random_state,  \* numpy's global RandomState
    km_pc,            \* position in cluster_optimal_zones / simple_kmeans
    centroids,        \* simple_kmeans: centroids
    labels,           \* simple_kmeans: labels
    iters,            \* simple_kmeans: completed passes of the for loop
    first_run,        \* (labels, centroids) returned by the stepwise run
    second_run,       \* (labels, centroids) returned by a repeated call
    clustered,        \* what cluster_optimal_zones returned
    entry_states,     \* the generator state each simple_kmeans call found on entry
    \* ---- categorize_zone
    cat_pc, cat_a, cat_b, cat_ra, cat_rb,
    \* ---- calculate_optimal_zones / calculate_optimal_zones_with_progress
    entry,               \* which of the two scans runs
    grid_resolution, min_wind_speed, max_grid_distance, weights, wind_farm_type,
    csv_exists,          \* os.path.exists(csv_path)
    era5_csv,            \* rows of era5_ireland_mean_wind_1994_2024.csv
    subs_file,           \* features of substations_110kV_clean.geojson
    lines_file,          \* features of lines_110kV_clean.geojson
    wind_farms_file,     \* features of the wind farm shapefile, None if missing
    pc,                  \* position in the scan
    wind_data, subs, lines, existing_wind_farms,
    grid_points,
    i,                   \* index of the next grid point
    grid_distance_cache,
    results,
    cluster_stats,
    raised,              \* the exception the scan raised, None if none
    progress_callback,   \* the callback argument, "None" if omitted
    progress_log,        \* the fractions the callback was called with, in order
    \* ---- one call of a scoring function, of the capacity factor estimator
    \* ---- or of a site classifier
    fn_pc,               \* "idle", "start" or "done"
    fn_args,             \* the arguments of the call
    fn_out               \* what the call returned

kmVars == <<gdf, n_clusters, np_random_state, km_pc, centroids, labels, iters,
            first_run, second_run, clustered, entry_states>>
catVars == <<cat_pc, cat_a, cat_b, cat_ra, cat_rb>>
scanInputs == <<entry, grid_resolution, min_wind_speed, max_grid_distance, weights,
                wind_farm_type, csv_exists, era5_csv, subs_file, lines_file,
                wind_farms_file, progress_callback>>
scanVars == <<scanInputs, pc, wind_data, subs, lines, existing_wind_farms, grid_points,
              i, grid_distance_cache, results, cluster_stats, raised, progress_log>>
fnVars == <<fn_pc, fn_args, fn_out>>
vars == <<kmVars, catVars, scanVars, fnVars>>

Abs(x) == IF x < 0 THEN -x ELSE x
Min(a, b) == IF a <= b THEN a ELSE b
Max(a, b) == IF a >= b THEN a ELSE b
None == <<>>

\* ------------------------------------------------------------------ bounds
MaxPoints == 3

\* ------------------------------------------------------- program constants
Unit == 10000
MaxIters == 100
RTolInv == 100000
Seed == 42
DefaultNClusters == 10

\* ======================================================================
\* Floats
\* ======================================================================
\* nan: every comparison with it is false, arithmetic on it gives nan
NaN == -(10^9)

Lt(a, b) == a # NaN /\ b # NaN /\ a < b
Gt(a, b) == a # NaN /\ b # NaN /\ a > b

\* np.clip(x, 0, 1): nan stays nan
Clip(x) == IF x = NaN THEN NaN ELSE Max(0, Min(Unit, x))

RECURSIVE ISqrtBits(_, _, _)
ISqrtBits(x, r, b) ==
    IF b = 0 THEN r
    ELSE IF (r + b) * (r + b) <= x THEN ISqrtBits(x, r + b, b \div 2)
    ELSE ISqrtBits(x, r, b \div 2)

\* floor of the square root, x < 2^30
ISqrt(x) == ISqrtBits(x, 0, 16384)

\* ======================================================================
\* Wind resource scores
\* ======================================================================
\* A wind sample: [latitude, longitude, wind_speed_10m]; a point: <<lat, lon>>

\* (wind_data['latitude'] - lat)**2 + (wind_data['longitude'] - lon)**2
SampleDist2(sample, lat, lon) ==
    (sample.latitude - lat) * (sample.latitude - lat)
    + (sample.longitude - lon) * (sample.longitude - lon)

\* the squared distances of all rows, in dataset order
SampleDistances(lat, lon, wd) == [j \in 1..Len(wd) |-> SampleDist2(wd[j], lat, lon)]

\* a minimum search that keeps the last row at the minimal distance
RECURSIVE IdxMinLastFrom(_, _, _)
IdxMinLastFrom(ds, best, j) ==
    IF j > Len(ds) THEN best
    ELSE IdxMinLastFrom(ds, IF ds[j] <= ds[best] THEN j ELSE best, j + 1)

NearestIdxLast(lat, lon, wd) == IdxMinLastFrom(SampleDistances(lat, lon, wd), 1, 2)

\* distances.idxmin(): the rows are read in order and a row replaces the
\* best one so far only if it is strictly nearer
RECURSIVE IdxMinFrom(_, _, _)
IdxMinFrom(ds, best, j) ==
    IF j > Len(ds) THEN best
    ELSE IdxMinFrom(ds, IF ds[j] < ds[best] THEN j ELSE best, j + 1)

NearestIdx(lat, lon, wd) == IdxMinFrom(SampleDistances(lat, lon, wd), 1, 2)

\* wind_data.loc[nearest_idx, 'wind_speed_10m']
NearestWindSpeed(lat, lon, wd) == wd[NearestIdx(lat, lon, wd)].wind_speed_10m

\* 1 / (1 + exp(-2 (v - 8))) for 6 <= v < 10, tabulated every 0.5 m/s (the
\* value at the half step at or below v)
SigmoidTable == <<180, 474, 1192, 2689, 5000, 7311, 8808, 9526>>
Sigmoid(v) == SigmoidTable[((v - 60000) \div 5000) + 1]

\* a sigmoid centred at 7 m/s instead of 8 m/s
WindScoreOfCentredAt7(v) ==
    IF v < 60000 THEN 0
    ELSE IF v >= 90000 THEN Unit
    ELSE Sigmoid(v + 10000)

\* the scoring part of calculate_wind_score
WindScoreOf(v) ==
    IF v < 60000 THEN 0
    ELSE IF v >= 100000 THEN Unit
    ELSE Sigmoid(v)

calculate_wind_score(lat, lon, wd) == WindScoreOf(NearestWindSpeed(lat, lon, wd))

\* 0.005 * v ** 2.5, tabulated every 0.5 m/s below 8.5 m/s (the value at the
\* half step at or below v); from 8.5 m/s on it is above 1.  A negative
\* numpy float to the power 2.5 is nan.
CFTable == <<9, 50, 138, 283, 494, 779, 1146, 1600, 2148, 2795, 3547, 4409, 5386, 6482, 7702, 9051>>
EmpiricalCF(v) ==
    IF v < 0 THEN NaN
    ELSE IF v < 5000 THEN 0
    ELSE IF v >= 85000 THEN Unit + 1
    ELSE CFTable[v \div 5000]

\* np.clip(cf / 0.5, 0, 1)
CFScoreOf(v) == IF EmpiricalCF(v) = NaN THEN NaN ELSE Clip(2 * EmpiricalCF(v))
calculate_capacity_factor_score(lat, lon, wd) == CFScoreOf(NearestWindSpeed(lat, lon, wd))

\* np.clip(cf, 0, 1)
ActualCFOf(v) == Clip(EmpiricalCF(v))
calculate_actual_capacity_factor(lat, lon, wd) == ActualCFOf(NearestWindSpeed(lat, lon, wd))

VariabilityScoreOf(v) ==
    IF v < 70000 THEN 9000
    ELSE IF v < 85000 THEN 7000
    ELSE IF v < 100000 THEN 5000
    ELSE 3000

calculate_wind_variability_score(lat, lon, wd) ==
    VariabilityScoreOf(NearestWindSpeed(lat, lon, wd))

\* ======================================================================
\* Grid connectivity and environmental scores
\* ======================================================================
\* geometry.distance(point) * 111 for a point feature <<lat, lon>>, in 0.1 km
\* (the square root is taken to 0.001 degree and rounded down)
PointDistance(f, lat, lon) ==
    (ISqrt(((f[1] - lat) * (f[1] - lat) + (f[2] - lon) * (f[2] - lon)) * 100) * 111) \div 100

\* a transmission line running east-west: [lat, lon_from, lon_to]; the
\* nearest point of the segment is the point's longitude clamped to it
LineDistance(l, lat, lon) ==
    PointDistance(<<l.lat, Max(l.lon_from, Min(l.lon_to, lon))>>, lat, lon)

RECURSIVE SeqMin(_, _)
SeqMin(ds, j) == IF j = 1 THEN ds[1] ELSE Min(SeqMin(ds, j - 1), ds[j])

\* subs['distance'].min(); the minimum of no rows is nan
MinPointDistance(fs, lat, lon) ==
    IF Len(fs) = 0 THEN NaN
    ELSE SeqMin([j \in 1..Len(fs) |-> PointDistance(fs[j], lat, lon)], Len(fs))

MinLineDistance(ls, lat, lon) ==
    IF Len(ls) = 0 THEN NaN
    ELSE SeqMin([j \in 1..Len(ls) |-> LineDistance(ls[j], lat, lon)], Len(ls))

\* Python's min(a, b): b if b < a else a
PyMin(a, b) == IF Lt(b, a) THEN b ELSE a

\* exp(-x / 20 km): exp(-q) tabulated for whole q, linear in between
ExpTable == <<10000, 3679, 1353, 498, 183, 67, 25, 9, 3, 1, 0>>
ExpNeg(x) ==
    LET q == x \div 200
        r == x % 200
    IN  IF q >= 10 THEN 0
        ELSE ExpTable[q + 1] - ((ExpTable[q + 1] - ExpTable[q + 2]) * r) \div 200

\* np.exp(-x / 20) is 0.0 in doubles once x / 20 exceeds 745.13 (x in 0.1 km)
ExpUnderflow == 149027

\* 0.3 * np.exp(-x / 20): a positive value below the resolution of the
\* scores is kept as the smallest positive score
TailScore(x) ==
    IF x >= ExpUnderflow THEN 0
    ELSE Max(1, (3 * ExpNeg(x)) \div 10)

\* a score whose second slope starts at 0.6 instead of 0.7
GridScoreOfJump(d) ==
    IF d = NaN THEN NaN
    ELSE IF d <= 50 THEN Unit
    ELSE IF d <= 150 THEN Unit - (3000 * (d - 50)) \div 100
    ELSE IF d <= 300 THEN 6000 - (3000 * (d - 150)) \div 150
    ELSE TailScore(d - 300)

\* the piecewise score of calculate_grid_score
GridScoreOf(d) ==
    IF d = NaN THEN NaN
    ELSE IF d <= 50 THEN Unit
    ELSE IF d <= 150 THEN Unit - (3000 * (d - 50)) \div 100
    ELSE IF d <= 300 THEN 7000 - (4000 * (d - 150)) \div 150
    ELSE TailScore(d - 300)

calculate_grid_score(lat, lon, sb, ls) ==
    Clip(GridScoreOf(PyMin(MinPointDistance(sb, lat, lon), MinLineDistance(ls, lat, lon))))

\* base_cost + per_km_cost * min_dist, in euro
calculate_grid_cost(lat, lon, sb) ==
    IF MinPointDistance(sb, lat, lon) = NaN THEN NaN
    ELSE 250000 + 2500 * MinPointDistance(sb, lat, lon)

EnvScoreOf(d) ==
    IF d = NaN THEN Unit
    ELSE IF d < 30 THEN 1000
    ELSE IF d < 80 THEN 1000 + (5000 * (d - 30)) \div 50
    ELSE IF d < 150 THEN 6000 + (3000 * (d - 80)) \div 70
    ELSE Unit

\* existing_wind_farms is None, or a sequence of point features
calculate_environmental_score(lat, lon, farms) ==
    IF farms # None /\ Len(farms) > 0
    THEN Clip(EnvScoreOf(MinPointDistance(farms, lat, lon)))
    ELSE Unit

OffshoreGridScoreOf(d) ==
    IF d = NaN THEN NaN
    ELSE IF d <= 100 THEN Unit
    ELSE IF d <= 200 THEN Unit - (3000 * (d - 100)) \div 100
    ELSE IF d <= 400 THEN 7000 - (4000 * (d - 200)) \div 200
    ELSE TailScore(d - 400)

calculate_offshore_grid_score(lat, lon, sb, ls) ==
    Clip(OffshoreGridScoreOf(MinPointDistance(sb, lat, lon)))

OffshoreEnvScoreOf(d) ==
    IF d = NaN THEN Unit
    ELSE IF d < 50 THEN 1000
    ELSE IF d < 150 THEN 1000 + (5000 * (d - 50)) \div 100
    ELSE IF d < 300 THEN 6000 + (3000 * (d - 150)) \div 150
    ELSE Unit

calculate_offshore_environmental_score(lat, lon, farms) ==
    IF farms # None /\ Len(farms) > 0
    THEN Clip(OffshoreEnvScoreOf(MinPointDistance(farms, lat, lon)))
    ELSE Unit

\* ======================================================================
\* Site classification
\* ======================================================================
\* determine_onshore_offshore_simple; its except branch is unreachable for
\* numbers
determine_onshore_offshore_simple(lat, lon) ==
    IF ~(5100 <= lat /\ lat <= 5550 /\ -1100 <= lon /\ lon <= -500) THEN "Offshore"
    ELSE IF lon < -850
    THEN (IF lat < 5250 \/ lat > 5450 THEN "Offshore" ELSE "Onshore")
    ELSE IF lon > -650
    THEN (IF lat < 5150 \/ lat > 5500 THEN "Offshore" ELSE "Onshore")
    ELSE (IF lat < 5200 \/ lat > 5500 THEN "Offshore" ELSE "Onshore")

\* What requests.get and water_response.json() do for one query:
\*   "raises"       requests.get raises (no connection, requests missing)
\*   "timeout"      requests.get raises Timeout after 10 s
\*   "non_success"  a response whose status_code is not 200
\*   "bad_body"     status 200, json() raises
\*   "water"        status 200, elements not empty
\*   "no_water"     status 200, elements empty
RemoteOutcomes == {"raises", "timeout", "non_success", "bad_body", "water", "no_water"}

\* determine_onshore_offshore_osm: the except branch calls the simple method;
\* a response that is not 200 skips the if and reaches return 'Onshore'
determine_onshore_offshore_osm(lat, lon, remote) ==
    IF remote \in {"raises", "timeout", "bad_body"}
    THEN determine_onshore_offshore_simple(lat, lon)
    ELSE IF remote = "water" THEN "Offshore"
    ELSE "Onshore"

determine_onshore_offshore(lat, lon) == determine_onshore_offshore_simple(lat, lon)

\* ======================================================================
\* categorize_zone
\* ======================================================================
categorize_zone_swapped(composite_score, wind_speed, grid_distance) ==
    IF composite_score >= 8000 /\ wind_speed >= 85000 /\ grid_distance >= 150
    THEN "Excellent"
    ELSE IF composite_score >= 6500 /\ wind_speed >= 75000 /\ grid_distance <= 250
    THEN "Good"
    ELSE IF composite_score >= 4500 /\ wind_speed >= 65000 /\ grid_distance <= 350
    THEN "Moderate"
    ELSE "Marginal"

categorize_zone_no_else(composite_score, wind_speed, grid_distance) ==
    IF composite_score >= 8000 /\ wind_speed >= 85000 /\ grid_distance <= 150
    THEN "Excellent"
    ELSE IF composite_score >= 6500 /\ wind_speed >= 75000 /\ grid_distance <= 250
    THEN "Good"
    ELSE IF composite_score >= 4500 /\ wind_speed >= 65000 /\ grid_distance <= 350
    THEN "Moderate"
    ELSE IF composite_score >= 4500 THEN "Marginal"
    ELSE "None"

categorize_zone(composite_score, wind_speed, grid_distance) ==
    IF composite_score >= 8000 /\ wind_speed >= 85000 /\ grid_distance <= 150
    THEN "Excellent"
    ELSE IF composite_score >= 6500 /\ wind_speed >= 75000 /\ grid_distance <= 250
    THEN "Good"
    ELSE IF composite_score >= 4500 /\ wind_speed >= 65000 /\ grid_distance <= 350
    THEN "Moderate"
    ELSE "Marginal"

\* ======================================================================
\* simple_kmeans
\* ======================================================================
\* A zone of gdf as far as clustering reads it.
ZoneStub(p) == [longitude |-> p[1], latitude |-> p[2], composite_score |-> 0,
                wind_speed_mps |-> 0, grid_distance_km |-> 0]

\* coords = gdf[['longitude', 'latitude']].values
CoordsOf(g) == [j \in 1..Len(g) |-> <<g[j].longitude, g[j].latitude>>]

IsNaNCentroid(c) == c.n = 0
PointCentroid(p) == [sx |-> p[1], sy |-> p[2], n |-> 1]

\* numpy's global generator: seed(s) puts it in the state s names; the stream
\* that follows is a fixed function of the state.  The Mersenne Twister is not
\* modelled: Permutation stands for the permutation the stream yields.
RngStates == {0, 1, Seed}
RandomSeedKeepState(state, s) == state
RandomSeed(state, s) == s
Permutation(state, n) == [j \in 0..(n - 1) |-> (state + j) % n]
RandomAdvance(state) == IF state = Seed THEN 0 ELSE 1

\* np.random.choice(n_points, k, replace=False): k distinct indices
RandomChoice(state, n, k) == [j \in 0..(k - 1) |-> Permutation(state, n)[j]]

\* cdist: squared distance from point p to centroid c, times c.n^2
Dist2Num(p, c) ==
    (c.n * p[1] - c.sx) * (c.n * p[1] - c.sx) + (c.n * p[2] - c.sy) * (c.n * p[2] - c.sy)

\* dist(p, c1) < dist(p, c2), neither centroid nan
Closer(p, c1, c2) == Dist2Num(p, c1) * c2.n * c2.n < Dist2Num(p, c2) * c1.n * c1.n

\* np.argmin over one row of distances: the first nan if there is one,
\* otherwise the first minimum
Argmin(p, cents, k) ==
    IF \E j \in 0..(k - 1) : IsNaNCentroid(cents[j])
    THEN CHOOSE a \in 0..(k - 1) :
             /\ IsNaNCentroid(cents[a])
             /\ \A j \in 0..(a - 1) : ~IsNaNCentroid(cents[j])
    ELSE CHOOSE a \in 0..(k - 1) :
             /\ \A j \in 0..(k - 1) : ~Closer(p, cents[j], cents[a])
             /\ \A j \in 0..(a - 1) : Closer(p, cents[a], cents[j])

\* labels = np.argmin(cdist(coords, centroids), axis=1)
AssignLabels(coords, cents, k) ==
    [j \in 1..Len(coords) |-> Argmin(coords[j], cents, k)]

RECURSIVE SumWhere(_, _, _, _, _)
SumWhere(coords, labs, c, axis, j) ==
    IF j = 0 THEN 0
    ELSE SumWhere(coords, labs, c, axis, j - 1)
         + (IF labs[j] = c THEN coords[j][axis] ELSE 0)

CountWhere(labs, c) == Cardinality({j \in DOMAIN labs : labs[j] = c})

\* coords[labels == c].mean(axis=0); the mean of no rows is nan
ClusterMean(coords, labs, c) ==
    [sx |-> SumWhere(coords, labs, c, 1, Len(coords)),
     sy |-> SumWhere(coords, labs, c, 2, Len(coords)),
     n  |-> CountWhere(labs, c)]

NewCentroids(coords, labs, k) ==
    [c \in 0..(k - 1) |-> ClusterMean(coords, labs, c)]

\* |a - b| <= atol + rtol * |b| for a = sa/na, b = sb/nb, atol = 1/tolDen,
\* rtol = 1/RTolInv; false when either is nan
CloseTo(sa, na, sb, nb, tolDen) ==
    /\ na > 0
    /\ nb > 0
    /\ Abs(sa * nb - sb * na)
         <= (RTolInv * na * nb + tolDen * Abs(sb) * na) \div (RTolInv * tolDen)

AllCloseAlways(cents, new, k, tolDen) == TRUE

\* np.allclose(centroids, new_centroids, atol=tolerance)
AllClose(cents, new, k, tolDen) ==
    \A c \in 0..(k - 1) :
        /\ CloseTo(cents[c].sx, cents[c].n, new[c].sx, new[c].n, tolDen)
        /\ CloseTo(cents[c].sy, cents[c].n, new[c].sy, new[c].n, tolDen)

\* centroids = coords[np.random.choice(n_points, n_clusters, replace=False)]
InitialCentroids(coords, k, state) ==
    [c \in 0..(k - 1) |-> PointCentroid(coords[RandomChoice(state, Len(coords), k)[c] + 1])]

\* One pass of the for loop from `cents`: the labels, the new centroids and
\* whether the pass breaks out.
LoopPass(coords, cents, k, tolDen) ==
    LET labs == AssignLabels(coords, cents, k)
        new  == NewCentroids(coords, labs, k)
    IN  [labels |-> labs, new_centroids |-> new,
         converged |-> AllClose(cents, new, k, tolDen)]

\* The loop body once, on the loop's state (labels, centroids, whether the
\* loop has broken out): a loop that has broken out stays as it is.
LoopStep(coords, st, k, tolDen) ==
    IF st.done THEN st
    ELSE LET pass == LoopPass(coords, st.centroids, k, tolDen)
         IN  IF pass.converged
             THEN [labels |-> pass.labels, centroids |-> st.centroids, done |-> TRUE]
             ELSE [labels |-> pass.labels, centroids |-> pass.new_centroids,
                   done |-> FALSE]

\* n passes of the for loop, the first half then the second half
RECURSIVE LoopSteps(_, _, _, _, _)
LoopSteps(coords, st, k, n, tolDen) ==
    IF n = 0 \/ st.done THEN st
    ELSE IF n = 1 THEN LoopStep(coords, st, k, tolDen)
    ELSE LoopSteps(coords, LoopSteps(coords, st, k, n \div 2, tolDen), k,
                   n - (n \div 2), tolDen)

\* for _ in range(max_iters), entered with `it` passes done and centroids
\* `cents`, run to the return statement
KMeansLoop(coords, cents, k, it, tolDen) ==
    LET st == LoopSteps(coords, [labels |-> <<>>, centroids |-> cents, done |-> FALSE],
                        k, MaxIters - it, tolDen)
    IN  [labels |-> st.labels, centroids |-> st.centroids]

\* simple_kmeans(coords, n_clusters) run to its return, from generator
\* state `state`
simple_kmeans(coords, n, state, tolDen) ==
    LET k == Min(n, Len(coords))
    IN  KMeansLoop(coords, InitialCentroids(coords, k, RandomSeed(state, Seed)), k, 0, tolDen)

\* ======================================================================
\* cluster_optimal_zones
\* ======================================================================
RECURSIVE SumField(_, _, _, _)
SumField(g, members, f, j) ==
    IF j = 0 THEN 0
    ELSE SumField(g, members, f, j - 1) + (IF j \in members THEN g[j][f] ELSE 0)

\* One row of cluster_stats; each mean is kept as its sum over `count`.
ClusterRow(g, members, c) ==
    [cluster_id |-> c,
     count |-> Cardinality(members),
     sum_score |-> SumField(g, members, "composite_score", Len(g)),
     sum_wind_speed |-> SumField(g, members, "wind_speed_mps", Len(g)),
     sum_grid_distance |-> SumField(g, members, "grid_distance_km", Len(g)),
     sum_lat |-> SumField(g, members, "latitude", Len(g)),
     sum_lon |-> SumField(g, members, "longitude", Len(g))]

RECURSIVE ClusterStatsFrom(_, _, _, _)
ClusterStatsFrom(g, labs, c, k) ==
    IF c >= k THEN <<>>
    ELSE LET members == {j \in 1..Len(g) : labs[j] = c}
         IN  (IF Cardinality(members) > 0 THEN <<ClusterRow(g, members, c)>> ELSE <<>>)
             \o ClusterStatsFrom(g, labs, c + 1, k)

ClusterStatsSkipFirst(g, labs, k) == ClusterStatsFrom(g, labs, 1, k)

\* for cluster_id in range(len(centroids)): ... if len(cluster_data) > 0
ClusterStats(g, labs, k) == ClusterStatsFrom(g, labs, 0, k)

\* cluster_optimal_zones(gdf, n_clusters) run to its return
cluster_optimal_zones(g, n, state, tolDen) ==
    IF Len(g) = 0
    THEN [cluster_id |-> <<>>, cluster_stats |-> <<>>]
    ELSE LET km == simple_kmeans(CoordsOf(g), Min(n, Len(g)), state, tolDen)
         IN  [cluster_id |-> km.labels,
              cluster_stats |-> ClusterStats(g, km.labels, Min(n, Len(g)))]

\* ======================================================================
\* calculate_optimal_zones / calculate_optimal_zones_with_progress
\* ======================================================================
\* a loader that makes up one sample when the file is missing
load_era5_wind_data_fallback(exists, csv) ==
    IF exists
    THEN [j \in 1..Len(csv) |-> [csv[j] EXCEPT !.longitude = @ - 36000]]
    ELSE <<[latitude |-> 5300, longitude |-> -800, wind_speed_10m |-> 70000]>>

\* load_era5_wind_data: df['longitude'] = df['longitude'] - 360
load_era5_wind_data(exists, csv) ==
    IF exists
    THEN [j \in 1..Len(csv) |-> [csv[j] EXCEPT !.longitude = @ - 36000]]
    ELSE None

\* np.arange(lo, hi, step) has ceil((hi - lo) / step) elements, the quotient
\* taken in IEEE double arithmetic.  These are the <<lo, hi, step>> of this
\* model whose exact quotient is whole and whose double quotient is just
\* above it, (-5.1 - -10.9) / 0.05 = 116.00000000000001 and
\* (-5.1 - -10.9) / 2.9 = 2.0000000000000004: one more element is made.
ArangeRoundsUp == {<<-1090, -510, 5>>, <<-1090, -510, 290>>}

ArangeLen(lo, hi, step) ==
    IF step < 0 /\ lo <= hi THEN 0
    ELSE ((hi - lo + step - 1) \div step)
         + (IF <<lo, hi, step>> \in ArangeRoundsUp THEN 1 ELSE 0)

\* the elements are lo + j * step for j < length
Arange(lo, hi, step) == [j \in 1..ArangeLen(lo, hi, step) |-> lo + (j - 1) * step]

\* The element at the upper end of a rounded-up range against hi, as doubles:
\* -10.9 + 116 * ((-10.9 + 0.05) - -10.9) = -5.099999999999918 is above -5.1;
\* -10.9 + 2 * ((-10.9 + 2.9) - -10.9) is -5.1 itself.
ArangeAboveStop == {<<-1090, -510, 5>>}

\* 1 for an element that is above its whole value as a double, else 0
\* (rounding inside the range is not followed)
ArangeExcess(lo, hi, step) ==
    [j \in 1..ArangeLen(lo, hi, step) |->
        IF lo + (j - 1) * step >= hi /\ <<lo, hi, step>> \in ArangeAboveStop THEN 1 ELSE 0]

\* for lat in lats: for lon in lons: grid_points.append(...); a grid point
\* is <<lat, lon, excess of lat, excess of lon>>
GridPointsOf(lats, lons, lat_excess, lon_excess) ==
    [j \in 1..(Len(lats) * Len(lons)) |->
        <<lats[((j - 1) \div Len(lons)) + 1], lons[((j - 1) % Len(lons)) + 1],
          lat_excess[((j - 1) \div Len(lons)) + 1], lon_excess[((j - 1) % Len(lons)) + 1]>>]

\* the analysis box; the scan with progress shrinks it by offshore_buffer
\* (0.1 degree) on every side for Offshore
OffshoreBuffer == 10
AnalysisBox(scan, type) ==
    IF scan = "progress" /\ type = "Offshore"
    THEN [lat_min |-> Max(5100, 5100 + OffshoreBuffer),
          lat_max |-> Min(5550, 5550 - OffshoreBuffer),
          lon_min |-> Max(-1100, -1100 + OffshoreBuffer),
          lon_max |-> Min(-500, -500 - OffshoreBuffer)]
    ELSE [lat_min |-> 5100, lat_max |-> 5550, lon_min |-> -1100, lon_max |-> -500]

AnalysisGrid(scan, type, res) ==
    LET box == AnalysisBox(scan, type)
    IN  GridPointsOf(Arange(box.lat_min, box.lat_max, res),
                     Arange(box.lon_min, box.lon_max, res),
                     ArangeExcess(box.lat_min, box.lat_max, res),
                     ArangeExcess(box.lon_min, box.lon_max, res))

\* which pair of grid/environmental scores a point gets
UsesOffshoreScores(type, lat, lon) ==
    IF type = "Auto-Detect" THEN determine_onshore_offshore(lat, lon) = "Offshore"
    ELSE type = "Offshore"

GridScoreFor(type, lat, lon, sb, ls) ==
    IF UsesOffshoreScores(type, lat, lon)
    THEN calculate_offshore_grid_score(lat, lon, sb, ls)
    ELSE calculate_grid_score(lat, lon, sb, ls)

EnvScoreFor(type, lat, lon, farms) ==
    IF UsesOffshoreScores(type, lat, lon)
    THEN calculate_offshore_environmental_score(lat, lon, farms)
    ELSE calculate_environmental_score(lat, lon, farms)

\* wind_speed = 5 + wind_score * 7  # Convert back to m/s
DerivedWindSpeed(wind_score) == 50000 + wind_score * 7

\* not (wind_speed < min_wind_speed or min_grid_dist > max_grid_distance)
MeetsConstraints(wind_speed, min_grid_dist, min_ws, max_gd) ==
    ~(Lt(wind_speed, min_ws) \/ Gt(min_grid_dist, max_gd))

TotalWeight(w) == w.wind + w.grid + w.environmental

\* wind_composite = 0.7 * wind_score + 0.3 * variability_score
WindComposite(wind_score, variability_score) ==
    (7 * wind_score + 3 * variability_score) \div 10

\* a weighted sum that gives every sub-score the same share, whatever the
\* weights are
CompositeScoreEqualShares(w, wind_composite, grid_score, env_score) ==
    IF wind_composite = NaN \/ grid_score = NaN \/ env_score = NaN THEN NaN
    ELSE Clip((wind_composite + grid_score + env_score) \div 3)

\* a weighted sum whose weights are not divided by total_weight
CompositeScoreUnnormalized(w, wind_composite, grid_score, env_score) ==
    IF wind_composite = NaN \/ grid_score = NaN \/ env_score = NaN THEN NaN
    ELSE Clip(w.wind * wind_composite + w.grid * grid_score
              + w.environmental * env_score)

\* the normalized weighted sum, clipped; total_weight is not zero
CompositeScore(w, wind_composite, grid_score, env_score) ==
    IF wind_composite = NaN \/ grid_score = NaN \/ env_score = NaN THEN NaN
    ELSE Clip((w.wind * wind_composite + w.grid * grid_score
               + w.environmental * env_score) \div TotalWeight(w))

\* location_type of the record: the classifier's answer for Auto-Detect,
\* otherwise the requested type itself
RecordedType(type, lat, lon) ==
    IF type = "Auto-Detect" THEN determine_onshore_offshore(lat, lon) ELSE type

\* the dictionary appended to results for an accepted grid point
ZoneRecord(lat, lon, wd, sb, ls, farms, type, w, min_grid_dist) ==
    LET wind_score == calculate_wind_score(lat, lon, wd)
        variability_score == calculate_wind_variability_score(lat, lon, wd)
        grid_score == GridScoreFor(type, lat, lon, sb, ls)
        env_score == EnvScoreFor(type, lat, lon, farms)
        wind_speed == DerivedWindSpeed(wind_score)
        wind_composite == WindComposite(wind_score, variability_score)
        composite_score == CompositeScore(w, wind_composite, grid_score, env_score)
    IN  [latitude |-> lat,
         longitude |-> lon,
         wind_score |-> wind_score,
         capacity_factor_score |-> calculate_capacity_factor_score(lat, lon, wd),
         capacity_factor |-> calculate_actual_capacity_factor(lat, lon, wd),
         variability_score |-> variability_score,
         wind_composite_score |-> wind_composite,
         grid_score |-> grid_score,
         environmental_score |-> env_score,
         composite_score |-> composite_score,
         wind_farm_type |-> RecordedType(type, lat, lon),
         wind_speed_mps |-> wind_speed,
         grid_distance_km |-> min_grid_dist,
         grid_cost_eur |-> calculate_grid_cost(lat, lon, sb),
         zone_category |-> categorize_zone(composite_score, wind_speed, min_grid_dist)]

\* cache_key = f"{lat:.3f}_{lon:.3f}": coordinates here are whole hundredths
\* of a degree, which three decimals keep apart
CacheKey(lat, lon) == <<lat, lon>>

RECURSIVE SelectSeq2(_, _, _)
SelectSeq2(zs, type, j) ==
    IF j > Len(zs) THEN <<>>
    ELSE (IF zs[j].wind_farm_type = type THEN <<zs[j]>> ELSE <<>>)
         \o SelectSeq2(zs, type, j + 1)

\* the filter on wind farm type after the loop
FilterByType(zs, type) ==
    IF type # "Auto-Detect" THEN SelectSeq2(zs, type, 1) ELSE zs

\* the records one scan accumulates over grid points j.. of `grid`, from the
\* loaded data, when no weight division fails
RECURSIVE AcceptedFrom(_, _)
AcceptedFrom(grid, j) ==
    IF j > Len(grid) THEN <<>>
    ELSE LET lat == grid[j][1]
             lon == grid[j][2]
             min_grid_dist == MinPointDistance(subs, lat, lon)
             wind_speed == DerivedWindSpeed(calculate_wind_score(lat, lon, wind_data))
         IN  (IF MeetsConstraints(wind_speed, min_grid_dist, min_wind_speed,
                                  max_grid_distance)
              THEN <<ZoneRecord(lat, lon, wind_data, subs, lines, existing_wind_farms,
                                wind_farm_type, weights, min_grid_dist)>>
              ELSE <<>>)
             \o AcceptedFrom(grid, j + 1)

\* the zones the scan `scan` returns for the inputs of this run
ScanZones(scan) ==
    FilterByType(AcceptedFrom(AnalysisGrid(scan, wind_farm_type, grid_resolution), 1),
                 wind_farm_type)

\* scan coordinates are hundredths of a degree: the tolerance 1e-4 is 1/100
ScanTolDen == 100

\* ---- the progress callback
\* the callbacks of this model: none ("None"), one that only keeps what it is
\* told,
\* and one that also uses numpy's global generator
Callbacks == {"None", "observer", "uses_random"}

\* `if progress_callback: progress_callback(f, message)` for each f of fs
Notified(scan, callback, log, fs) ==
    IF scan = "progress" /\ callback # "None" THEN log \o fs ELSE log

\* the global generator after these calls
GeneratorAfter(scan, callback, state, fs) ==
    IF scan = "progress" /\ callback = "uses_random" /\ Len(fs) > 0 THEN 1 ELSE state

\* the loop's progress without the division by total_points
LoopProgressUndivided(j, total_points) == 2500 + 6000 * j

\* progress = 0.25 + 0.60 * (i / total_points)
LoopProgress(j, total_points) == 2500 + (6000 * j) \div total_points

\* if i % max(1, total_points // 20) == 0: the callback is called
LoopFractions(j, total_points) ==
    IF j % Max(1, total_points \div 20) = 0 THEN <<LoopProgress(j, total_points)>>
    ELSE <<>>

LoadFractions(exists) == <<500>> \o (IF exists THEN <<1000, 1500>> ELSE <<>>)

GridFractions(type) ==
    <<2000>> \o (IF type \in {"Auto-Detect", "Offshore"} THEN <<2200>> ELSE <<>>)
    \o <<2500, 2200>>

FilterFractions(type) ==
    <<8500>> \o (IF type # "Auto-Detect" THEN <<8700>> ELSE <<>>) \o <<9000>>

\* ---- inputs of the scans
SpeedValues == {-10000, 70000, 100000}
SamplePositions == <<<<5400, -800>>, <<5100, -1100>>, <<5250, -950>>, <<5400, -1100>>>>
MaxSamples == 2
CsvRow(j, v) ==
    [latitude |-> SamplePositions[j][1], longitude |-> SamplePositions[j][2] + 36000,
     wind_speed_10m |-> v]
CsvFiles ==
    UNION {{[j \in 1..n |-> CsvRow(j, f[j])] : f \in [1..n -> SpeedValues]} : n \in 1..MaxSamples}
DefaultWeights == [wind |-> 5, grid |-> 3, environmental |-> 2]
WeightChoices == {DefaultWeights,
                  [wind |-> 1, grid |-> 0, environmental |-> 0],
                  [wind |-> 0, grid |-> 0, environmental |-> 0]}

InitScan ==
    /\ entry \in {"plain", "progress"}
    /\ grid_resolution \in {300, 600, -100}
    /\ min_wind_speed \in {50000, 60000, 110000}
    /\ max_grid_distance \in {500, 3500}
    /\ weights \in WeightChoices
    /\ wind_farm_type \in {"Onshore", "Offshore", "Auto-Detect"}
    /\ csv_exists \in BOOLEAN
    /\ era5_csv \in (IF csv_exists THEN CsvFiles ELSE {<<>>})
    /\ subs_file = <<<<5400, -810>>, <<5110, -1090>>>>
    /\ lines_file = <<[lat |-> 5300, lon_from |-> -900, lon_to |-> -700]>>
    /\ wind_farms_file \in {None, <<<<5400, -795>>>>}
    /\ pc = "start"
    /\ wind_data = None
    /\ subs = None
    /\ lines = None
    /\ existing_wind_farms = None
    /\ grid_points = <<>>
    /\ i = 0
    /\ grid_distance_cache = <<>>
    /\ results = <<>>
    /\ cluster_stats = None
    /\ raised = None
    /\ progress_callback \in (IF entry = "plain" THEN {"None"} ELSE Callbacks)
    /\ progress_log = <<>>
    /\ fn_pc = "idle"
    /\ fn_args = <<>>
    /\ fn_out = <<>>
    /\ gdf = <<>>
    /\ n_clusters = DefaultNClusters
    /\ np_random_state = 0
    /\ km_pc = "idle"
    /\ centroids = None
    /\ labels = None
    /\ iters = 0
    /\ first_run = None
    /\ second_run = None
    /\ clustered = None
    /\ entry_states = <<>>
    /\ cat_pc = "idle"
    /\ cat_a = None
    /\ cat_b = None
    /\ cat_ra = None
    /\ cat_rb = None

\* the three loads; a missing wind file raises ValueError("Wind data not found!")
LoadData ==
    /\ pc = "start"
    /\ wind_data' = load_era5_wind_data(csv_exists, era5_csv)
    /\ IF load_era5_wind_data(csv_exists, era5_csv) = None
       THEN /\ raised' = "ValueError"
            /\ pc' = "raised"
            /\ UNCHANGED <<subs, lines, existing_wind_farms>>
       ELSE /\ subs' = subs_file
            /\ lines' = lines_file
            /\ existing_wind_farms' = wind_farms_file
            /\ pc' = "grid"
            /\ UNCHANGED raised
    /\ progress_log' = Notified(entry, progress_callback, progress_log,
                                LoadFractions(csv_exists))
    /\ np_random_state' = GeneratorAfter(entry, progress_callback, np_random_state,
                                         LoadFractions(csv_exists))
    /\ UNCHANGED <<scanInputs, grid_points, i, grid_distance_cache, results, cluster_stats>>

\* lats, lons, grid_points; results = []
BuildGrid ==
    /\ pc = "grid"
    /\ grid_points' = AnalysisGrid(entry, wind_farm_type, grid_resolution)
    /\ i' = 0
    /\ results' = <<>>
    /\ grid_distance_cache' = <<>>
    /\ pc' = "loop"
    /\ progress_log' = Notified(entry, progress_callback, progress_log,
                                GridFractions(wind_farm_type))
    /\ np_random_state' = GeneratorAfter(entry, progress_callback, np_random_state,
                                         GridFractions(wind_farm_type))
    /\ UNCHANGED <<scanInputs, wind_data, subs, lines, existing_wind_farms, cluster_stats,
                   raised>>

\* one pass of `for i, point in enumerate(grid_points)`
ScorePoint ==
    /\ pc = "loop"
    /\ i < Len(grid_points)
    /\ LET lat == grid_points[i + 1][1]
           lon == grid_points[i + 1][2]
           key == CacheKey(lat, lon)
           cached == entry = "progress" /\ key \in DOMAIN grid_distance_cache
           min_grid_dist == IF cached THEN grid_distance_cache[key]
                            ELSE MinPointDistance(subs, lat, lon)
           wind_speed == DerivedWindSpeed(calculate_wind_score(lat, lon, wind_data))
       IN  /\ grid_distance_cache' =
                  IF entry = "progress" /\ ~cached
                  THEN (key :> min_grid_dist) @@ grid_distance_cache
                  ELSE grid_distance_cache
           /\ IF ~MeetsConstraints(wind_speed, min_grid_dist, min_wind_speed,
                                   max_grid_distance)
              THEN /\ i' = i + 1
                   /\ UNCHANGED <<results, pc, raised>>
              ELSE IF TotalWeight(weights) = 0
              THEN /\ raised' = "ZeroDivisionError"
                   /\ pc' = "raised"
                   /\ UNCHANGED <<results, i>>
              ELSE /\ results' = Append(results,
                                        ZoneRecord(lat, lon, wind_data, subs, lines,
                                                   existing_wind_farms, wind_farm_type,
                                                   weights, min_grid_dist))
                   /\ i' = i + 1
                   /\ UNCHANGED <<pc, raised>>
    /\ progress_log' = Notified(entry, progress_callback, progress_log,
                                LoopFractions(i, Len(grid_points)))
    /\ np_random_state' = GeneratorAfter(entry, progress_callback, np_random_state,
                                         LoopFractions(i, Len(grid_points)))
    /\ UNCHANGED <<scanInputs, wind_data, subs, lines, existing_wind_farms, grid_points,
                   cluster_stats>>

\* after the loop: the filter on wind farm type; calculate_optimal_zones
\* returns the GeoDataFrame
FilterResults ==
    /\ pc = "loop"
    /\ i = Len(grid_points)
    /\ results' = FilterByType(results, wind_farm_type)
    /\ pc' = IF entry = "plain" THEN "returned" ELSE "cluster"
    /\ progress_log' = Notified(entry, progress_callback, progress_log,
                                FilterFractions(wind_farm_type))
    /\ np_random_state' = GeneratorAfter(entry, progress_callback, np_random_state,
                                         FilterFractions(wind_farm_type))
    /\ UNCHANGED <<scanInputs, wind_data, subs, lines, existing_wind_farms, grid_points, i,
                   grid_distance_cache, cluster_stats, raised>>

\* calculate_optimal_zones_with_progress: cluster_optimal_zones(gdf); return
ClusterZones ==
    /\ pc = "cluster"
    /\ \E r \in {cluster_optimal_zones(results, DefaultNClusters, np_random_state,
                                        ScanTolDen)} :
          /\ results' = [j \in 1..Len(results) |->
                            results[j] @@ [cluster_id |-> r.cluster_id[j]]]
          /\ cluster_stats' = r.cluster_stats
    /\ np_random_state' =
           GeneratorAfter(entry, progress_callback,
                          IF Len(results) = 0 THEN np_random_state
                          ELSE RandomAdvance(RandomSeed(np_random_state, Seed)),
                          <<Unit>>)
    /\ progress_log' = Notified(entry, progress_callback, progress_log, <<Unit>>)
    /\ pc' = "returned"
    /\ UNCHANGED <<scanInputs, wind_data, subs, lines, existing_wind_farms, grid_points, i,
                   grid_distance_cache, raised>>

kmRest == <<gdf, n_clusters, km_pc, centroids, labels, iters, first_run, second_run,
            clustered, entry_states>>

Next ==
    \/ (LoadData /\ UNCHANGED <<kmRest, catVars, fnVars>>)
    \/ (BuildGrid /\ UNCHANGED <<kmRest, catVars, fnVars>>)
    \/ (ScorePoint /\ UNCHANGED <<kmRest, catVars, fnVars>>)
    \/ (FilterResults /\ UNCHANGED <<kmRest, catVars, fnVars>>)
    \/ (ClusterZones /\ UNCHANGED <<kmRest, catVars, fnVars>>)

Spec == InitScan /\ [][Next]_vars

\* ---------------------------------------------------------------------
\* The scans up to the end of grid generation, at the resolutions the
\* dashboard offers (0.05 to 0.25 degree) and at two coarse ones
\* ---------------------------------------------------------------------
GridResolutions == {5, 10, 15, 20, 25, 290, 300}

InitGrid ==
    /\ entry \in {"plain", "progress"}
    /\ grid_resolution \in GridResolutions
    /\ min_wind_speed = 60000
    /\ max_grid_distance = 500
    /\ weights = DefaultWeights
    /\ wind_farm_type \in {"Onshore", "Offshore", "Auto-Detect"}
    /\ csv_exists \in BOOLEAN
    /\ era5_csv = (IF csv_exists THEN <<CsvRow(1, 85000)>> ELSE <<>>)
    /\ subs_file = <<<<5400, -810>>, <<5110, -1090>>>>
    /\ lines_file = <<[lat |-> 5300, lon_from |-> -900, lon_to |-> -700]>>
    /\ wind_farms_file = None
    /\ pc = "start"
    /\ wind_data = None
    /\ subs = None
    /\ lines = None
    /\ existing_wind_farms = None
    /\ grid_points = <<>>
    /\ i = 0
    /\ grid_distance_cache = <<>>
    /\ results = <<>>
    /\ cluster_stats = None
    /\ raised = None
    /\ progress_callback \in (IF entry = "plain" THEN {"None"} ELSE {"None", "observer"})
    /\ progress_log = <<>>
    /\ fn_pc = "idle"
    /\ fn_args = <<>>
    /\ fn_out = <<>>
    /\ gdf = <<>>
    /\ n_clusters = DefaultNClusters
    /\ np_random_state = 0
    /\ km_pc = "idle"
    /\ centroids = None
    /\ labels = None
    /\ iters = 0
    /\ first_run = None
    /\ second_run = None
    /\ clustered = None
    /\ entry_states = <<>>
    /\ cat_pc = "idle"
    /\ cat_a = None
    /\ cat_b = None
    /\ cat_ra = None
    /\ cat_rb = None

NextGrid ==
    \/ (LoadData /\ UNCHANGED <<kmRest, catVars, fnVars>>)
    \/ (BuildGrid /\ UNCHANGED <<kmRest, catVars, fnVars>>)

SpecGrid == InitGrid /\ [][NextGrid]_vars

\* ---------------------------------------------------------------------
\* The clustering call, one step per statement group.  The arrays of this
\* specification are in units of the tolerance (1e-4 degree): tolDen = 1.
\* ---------------------------------------------------------------------
KMPoints == {<<0, 0>>, <<1, 0>>, <<7, 5>>}
KMTolDen == 1
K == Min(Min(n_clusters, Len(gdf)), Len(gdf))

InitKM ==
    /\ gdf \in UNION {[1..n -> {ZoneStub(p) : p \in KMPoints}] : n \in 0..MaxPoints}
    /\ n_clusters \in (1..MaxPoints) \cup {DefaultNClusters}
    /\ np_random_state = 0
    /\ km_pc = "call"
    /\ centroids = None
    /\ labels = None
    /\ iters = 0
    /\ first_run = None
    /\ second_run = None
    /\ clustered = None
    /\ entry_states = <<>>
    /\ cat_pc = "idle"
    /\ cat_a = None
    /\ cat_b = None
    /\ cat_ra = None
    /\ cat_rb = None
    /\ entry = "none"
    /\ grid_resolution = 0
    /\ min_wind_speed = 0
    /\ max_grid_distance = 0
    /\ weights = None
    /\ wind_farm_type = "none"
    /\ csv_exists = FALSE
    /\ era5_csv = <<>>
    /\ subs_file = <<>>
    /\ lines_file = <<>>
    /\ wind_farms_file = None
    /\ pc = "idle"
    /\ wind_data = None
    /\ subs = None
    /\ lines = None
    /\ existing_wind_farms = None
    /\ grid_points = <<>>
    /\ i = 0
    /\ grid_distance_cache = <<>>
    /\ results = <<>>
    /\ cluster_stats = None
    /\ raised = None
    /\ progress_callback = "None"
    /\ progress_log = <<>>
    /\ fn_pc = "idle"
    /\ fn_args = <<>>
    /\ fn_out = <<>>

\* cluster_optimal_zones: if len(gdf) == 0: return gdf, []
ClusterEmpty ==
    /\ km_pc = "call"
    /\ Len(gdf) = 0
    /\ clustered' = [cluster_id |-> <<>>, cluster_stats |-> <<>>]
    /\ km_pc' = "returned"
    /\ UNCHANGED <<gdf, n_clusters, np_random_state, centroids, labels, iters,
                   first_run, second_run, entry_states>>

\* simple_kmeans up to the loop: seed the generator, draw the centroids
KMeansInit ==
    /\ km_pc = "call"
    /\ Len(gdf) > 0
    /\ centroids' = InitialCentroids(CoordsOf(gdf), K, RandomSeed(np_random_state, Seed))
    /\ np_random_state' = RandomAdvance(RandomSeed(np_random_state, Seed))
    /\ iters' = 0
    /\ km_pc' = "loop"
    /\ entry_states' = Append(entry_states, np_random_state)
    /\ UNCHANGED <<gdf, n_clusters, labels, first_run, second_run, clustered>>

\* the loop without its bound: `while True` in place of range(max_iters)
KMeansIterateUnbounded ==
    /\ km_pc = "loop"
    /\ \E pass \in {LoopPass(CoordsOf(gdf), centroids, K, KMTolDen)} :
          /\ labels' = pass.labels
          /\ IF pass.converged
             THEN /\ km_pc' = "return"
                  /\ UNCHANGED centroids
             ELSE /\ centroids' = pass.new_centroids
                  /\ km_pc' = "loop"
    /\ UNCHANGED <<gdf, n_clusters, np_random_state, first_run, second_run, clustered,
                   entry_states, iters>>

\* one pass of `for _ in range(max_iters)`
KMeansIterate ==
    /\ km_pc = "loop"
    /\ iters < MaxIters
    /\ \E pass \in {LoopPass(CoordsOf(gdf), centroids, K, KMTolDen)} :
          /\ labels' = pass.labels
          /\ IF pass.converged
             THEN /\ km_pc' = "return"
                  /\ UNCHANGED <<centroids, iters>>
             ELSE /\ centroids' = pass.new_centroids
                  /\ iters' = iters + 1
                  /\ km_pc' = IF iters + 1 = MaxIters THEN "return" ELSE "loop"
    /\ UNCHANGED <<gdf, n_clusters, np_random_state, first_run, second_run, clustered,
                   entry_states>>

\* return labels, centroids
KMeansReturn ==
    /\ km_pc = "return"
    /\ first_run' = [labels |-> labels, centroids |-> centroids]
    /\ km_pc' = "stats"
    /\ UNCHANGED <<gdf, n_clusters, np_random_state, centroids, labels, iters,
                   second_run, clustered, entry_states>>

\* gdf['cluster_id'] = cluster_labels; the statistics loop; return
ClusterFinish ==
    /\ km_pc = "stats"
    /\ clustered' = [cluster_id |-> first_run.labels,
                     cluster_stats |-> ClusterStats(gdf, first_run.labels,
                                                    Cardinality(DOMAIN first_run.centroids))]
    /\ km_pc' = "returned"
    /\ UNCHANGED <<gdf, n_clusters, np_random_state, centroids, labels, iters,
                   first_run, second_run, entry_states>>

\* any other use of numpy's global generator between two calls
OtherRandomCall ==
    /\ km_pc = "returned"
    /\ \E s \in RngStates : s # np_random_state /\ np_random_state' = s
    /\ UNCHANGED <<gdf, n_clusters, km_pc, centroids, labels, iters, first_run,
                   second_run, clustered, entry_states>>

\* simple_kmeans called again on the same array
KMeansAgain ==
    /\ km_pc = "returned"
    /\ Len(gdf) > 0
    /\ second_run' = simple_kmeans(CoordsOf(gdf), Min(n_clusters, Len(gdf)),
                                   np_random_state, KMTolDen)
    /\ np_random_state' = RandomAdvance(RandomSeed(np_random_state, Seed))
    /\ km_pc' = "again"
    /\ entry_states' = Append(entry_states, np_random_state)
    /\ UNCHANGED <<gdf, n_clusters, centroids, labels, iters, first_run, clustered>>

\* ======================================================================
\* categorize_zone applied to two inputs
\* ======================================================================
CompositeValues == {4499, 4500, 6500, 7999, 8000}
WindValues == {64999, 65000, 75000, 84999, 85000}
DistanceValues == {100, 150, 151, 250, 350, 351}
CatInputs == CompositeValues \X WindValues \X DistanceValues

InitCat ==
    /\ cat_pc = "call"
    /\ cat_a \in CatInputs
    /\ cat_b \in CatInputs
    /\ cat_ra = None
    /\ cat_rb = None
    /\ gdf = <<>>
    /\ n_clusters = DefaultNClusters
    /\ np_random_state = 0
    /\ km_pc = "idle"
    /\ centroids = None
    /\ labels = None
    /\ iters = 0
    /\ first_run = None
    /\ second_run = None
    /\ clustered = None
    /\ entry_states = <<>>
    /\ entry = "none"
    /\ grid_resolution = 0
    /\ min_wind_speed = 0
    /\ max_grid_distance = 0
    /\ weights = None
    /\ wind_farm_type = "none"
    /\ csv_exists = FALSE
    /\ era5_csv = <<>>
    /\ subs_file = <<>>
    /\ lines_file = <<>>
    /\ wind_farms_file = None
    /\ pc = "idle"
    /\ wind_data = None
    /\ subs = None
    /\ lines = None
    /\ existing_wind_farms = None
    /\ grid_points = <<>>
    /\ i = 0
    /\ grid_distance_cache = <<>>
    /\ results = <<>>
    /\ cluster_stats = None
    /\ raised = None
    /\ progress_callback = "None"
    /\ progress_log = <<>>
    /\ fn_pc = "idle"
    /\ fn_args = <<>>
    /\ fn_out = <<>>

Categorize ==
    /\ cat_pc = "call"
    /\ cat_ra' = categorize_zone(cat_a[1], cat_a[2], cat_a[3])
    /\ cat_rb' = categorize_zone(cat_b[1], cat_b[2], cat_b[3])
    /\ cat_pc' = "done"
    /\ UNCHANGED <<cat_a, cat_b>>

\* ======================================================================
\* Specifications
\* ======================================================================
NextKM ==
    \/ (ClusterEmpty /\ UNCHANGED <<catVars, scanVars, fnVars>>)
    \/ (KMeansInit /\ UNCHANGED <<catVars, scanVars, fnVars>>)
    \/ (KMeansIterate /\ UNCHANGED <<catVars, scanVars, fnVars>>)
    \/ (KMeansReturn /\ UNCHANGED <<catVars, scanVars, fnVars>>)
    \/ (ClusterFinish /\ UNCHANGED <<catVars, scanVars, fnVars>>)
    \/ (OtherRandomCall /\ UNCHANGED <<catVars, scanVars, fnVars>>)
    \/ (KMeansAgain /\ UNCHANGED <<catVars, scanVars, fnVars>>)

SpecKM == InitKM /\ [][NextKM]_vars

\* Termination is checked on arrays over two coordinates: repeated rows (an
\* empty cluster, no convergence) and distinct rows (convergence) both occur.
KMFairPoints == {<<0, 0>>, <<7, 5>>}

InitKMFair ==
    /\ gdf \in UNION {[1..n -> {ZoneStub(p) : p \in KMFairPoints}] : n \in 0..MaxPoints}
    /\ n_clusters \in (1..MaxPoints) \cup {DefaultNClusters}
    /\ np_random_state = 0
    /\ km_pc = "call"
    /\ centroids = None
    /\ labels = None
    /\ iters = 0
    /\ first_run = None
    /\ second_run = None
    /\ clustered = None
    /\ entry_states = <<>>
    /\ cat_pc = "idle"
    /\ cat_a = None
    /\ cat_b = None
    /\ cat_ra = None
    /\ cat_rb = None
    /\ entry = "none"
    /\ grid_resolution = 0
    /\ min_wind_speed = 0
    /\ max_grid_distance = 0
    /\ weights = None
    /\ wind_farm_type = "none"
    /\ csv_exists = FALSE
    /\ era5_csv = <<>>
    /\ subs_file = <<>>
    /\ lines_file = <<>>
    /\ wind_farms_file = None
    /\ pc = "idle"
    /\ wind_data = None
    /\ subs = None
    /\ lines = None
    /\ existing_wind_farms = None
    /\ grid_points = <<>>
    /\ i = 0
    /\ grid_distance_cache = <<>>
    /\ results = <<>>
    /\ cluster_stats = None
    /\ raised = None
    /\ progress_callback = "None"
    /\ progress_log = <<>>
    /\ fn_pc = "idle"
    /\ fn_args = <<>>
    /\ fn_out = <<>>

\* the interpreter keeps running the loop of a call that is inside it
SpecKMFair ==
    /\ InitKMFair
    /\ [][NextKM]_vars
    /\ WF_vars(KMeansIterate /\ UNCHANGED <<catVars, scanVars, fnVars>>)

NextCat == Categorize /\ UNCHANGED <<kmVars, scanVars, fnVars>>

SpecCat == InitCat /\ [][NextCat]_vars

\* ======================================================================
\* compute_cf_2019.py: the power curve
\* ======================================================================
\* Wind speeds are in 0.1 m/s.  Power is in units of rated_power / 9^3, so
\* that the cubic ramp rated_power * ((v - vin) / (vrated - vin)) ** 3 is an
\* integer at every speed.
CutIn == 30
RatedSpeed == 120
CutOut == 250
RatedPower == 729000

\* a power curve without the cut-out speed
power_output_no_cut_out(v, vin, vrated, vout, rated_power) ==
    IF v >= vin /\ v < vrated
    THEN (rated_power \div ((vrated - vin) ^ 3)) * ((v - vin) ^ 3)
    ELSE IF v >= vrated THEN rated_power
    ELSE 0

\* power_output for one element of v: mask_1, mask_2, otherwise the zero of
\* np.zeros_like
power_output(v, vin, vrated, vout, rated_power) ==
    IF v >= vin /\ v < vrated
    THEN (rated_power \div ((vrated - vin) ^ 3)) * ((v - vin) ^ 3)
    ELSE IF v >= vrated /\ v < vout THEN rated_power
    ELSE 0

\* ======================================================================
\* compute_cf_2019.py: the capacity factor
\* ======================================================================
\* dd_fraction is None, a scalar or an array, in tenths: [kind, value]
NoDispatchDown == [kind |-> "none", value |-> 0]

\* np.clip(x, 0, 1) of a number of tenths
ClipTenths(x) == Max(0, Min(10, x))

\* ten times the factor power[h] is multiplied by: 1 - dd_fraction for a
\* scalar, 1 - np.clip(dd, 0, 1)[h] for an array, 1 without dispatch-down
DerateTenths(dd_fraction, h) ==
    IF dd_fraction.kind = "none" THEN 10
    ELSE IF dd_fraction.kind = "scalar" THEN 10 - dd_fraction.value
    ELSE 10 - ClipTenths(dd_fraction.value[h])

\* ten times power.sum() after the derating
RECURSIVE DeratedSum(_, _, _, _)
DeratedSum(wind_series, rated_power, dd_fraction, h) ==
    IF h = 0 THEN 0
    ELSE DeratedSum(wind_series, rated_power, dd_fraction, h - 1)
         + power_output(wind_series[h], CutIn, RatedSpeed, CutOut, rated_power)
           * DerateTenths(dd_fraction, h)

\* cf = power.mean() / rated_power, in 1/10000
MeanCF(wind_series, rated_power, dd_fraction) ==
    DeratedSum(wind_series, rated_power, dd_fraction, Len(wind_series))
        \div (Len(wind_series) * (rated_power \div (Unit \div 10)))

MaxCF == 5500

\* the estimate without the final np.clip
compute_cf_2019_unclipped(wind_series, rated_power, dd_fraction) ==
    MeanCF(wind_series, rated_power, dd_fraction)

\* compute_cf_2019 from the hourly series of the nearest grid point on:
\* float(np.clip(cf, 0, 0.55))
compute_cf_2019(wind_series, rated_power, dd_fraction) ==
    Max(0, Min(MaxCF, MeanCF(wind_series, rated_power, dd_fraction)))

\* ======================================================================
\* compute_cf_2019 applied to one series and one dispatch-down input
\* ======================================================================
MaxHours == 2
HourlySpeeds == {20, 75, 120, 250}
WindSeries == UNION {[1..n -> HourlySpeeds] : n \in 1..MaxHours}
DispatchDownTenths == {-10, 0, 3, 10, 20}
\* the arrays with one entry for every hour of `series`, and the same with
\* one entry more
DispatchDownInputs(series) ==
    {NoDispatchDown}
        \cup {[kind |-> "scalar", value |-> x] : x \in DispatchDownTenths}
        \cup {[kind |-> "array", value |-> a] :
                 a \in [1..Len(series) -> DispatchDownTenths]}
        \cup {[kind |-> "array", value |-> Append(a, 5)] :
                 a \in [1..Len(series) -> DispatchDownTenths]}

InitCF ==
    /\ fn_pc = "start"
    /\ fn_args \in UNION {{[wind_series |-> ws, dd_fraction |-> dd] :
                                dd \in DispatchDownInputs(ws)} : ws \in WindSeries}
    /\ fn_out = <<>>
    /\ cat_pc = "idle"
    /\ cat_a = <<>>
    /\ cat_b = <<>>
    /\ cat_ra = None
    /\ cat_rb = None
    /\ gdf = <<>>
    /\ n_clusters = DefaultNClusters
    /\ np_random_state = 0
    /\ km_pc = "idle"
    /\ centroids = None
    /\ labels = None
    /\ iters = 0
    /\ first_run = None
    /\ second_run = None
    /\ clustered = None
    /\ entry_states = <<>>
    /\ entry = "none"
    /\ grid_resolution = 0
    /\ min_wind_speed = 0
    /\ max_grid_distance = 0
    /\ weights = None
    /\ wind_farm_type = "none"
    /\ csv_exists = FALSE
    /\ era5_csv = <<>>
    /\ subs_file = <<>>
    /\ lines_file = <<>>
    /\ wind_farms_file = None
    /\ pc = "idle"
    /\ wind_data = None
    /\ subs = None
    /\ lines = None
    /\ existing_wind_farms = None
    /\ grid_points = <<>>
    /\ i = 0
    /\ grid_distance_cache = <<>>
    /\ results = <<>>
    /\ cluster_stats = None
    /\ raised = None
    /\ progress_callback = "None"
    /\ progress_log = <<>>

ComputeCF ==
    /\ fn_pc = "start"
    /\ fn_pc' = "done"
    /\ fn_out' = [fn |-> "cf",
                  cf |-> compute_cf_2019(fn_args.wind_series, RatedPower,
                                         fn_args.dd_fraction)]
    /\ UNCHANGED fn_args

NextCF == ComputeCF /\ UNCHANGED <<kmVars, catVars, scanVars>>

SpecCF == InitCF /\ [][NextCF]_vars

\* ======================================================================
\* The wind lookup of the four wind-based scores for one candidate
\* ======================================================================
\* Samples at three places, two of them at the same distance from the first
\* and from the second query point; any of three speeds at each.
LookupPlaces == {<<5300, -800>>, <<5300, -700>>, <<5400, -800>>}
LookupSpeeds == {40000, 65000, 90000}
LookupQueries == {<<5300, -750>>, <<5350, -800>>, <<5310, -790>>}
LookupSamples ==
    {[latitude |-> p[1], longitude |-> p[2], wind_speed_10m |-> v] :
        p \in LookupPlaces, v \in LookupSpeeds}
LookupDatasets == UNION {[1..n -> LookupSamples] : n \in 1..(MaxSamples + 1)}

InitLookup ==
    /\ fn_pc = "start"
    /\ fn_args \in [wind_data : LookupDatasets, point : LookupQueries]
    /\ fn_out = <<>>
    /\ cat_pc = "idle"
    /\ cat_a = <<>>
    /\ cat_b = <<>>
    /\ cat_ra = None
    /\ cat_rb = None
    /\ gdf = <<>>
    /\ n_clusters = DefaultNClusters
    /\ np_random_state = 0
    /\ km_pc = "idle"
    /\ centroids = None
    /\ labels = None
    /\ iters = 0
    /\ first_run = None
    /\ second_run = None
    /\ clustered = None
    /\ entry_states = <<>>
    /\ entry = "none"
    /\ grid_resolution = 0
    /\ min_wind_speed = 0
    /\ max_grid_distance = 0
    /\ weights = None
    /\ wind_farm_type = "none"
    /\ csv_exists = FALSE
    /\ era5_csv = <<>>
    /\ subs_file = <<>>
    /\ lines_file = <<>>
    /\ wind_farms_file = None
    /\ pc = "idle"
    /\ wind_data = None
    /\ subs = None
    /\ lines = None
    /\ existing_wind_farms = None
    /\ grid_points = <<>>
    /\ i = 0
    /\ grid_distance_cache = <<>>
    /\ results = <<>>
    /\ cluster_stats = None
    /\ raised = None
    /\ progress_callback = "None"
    /\ progress_log = <<>>

\* the four wind-based scores of the candidate fn_args.point, each with its
\* own lookup as in the scan's loop body
LookupScores ==
    /\ fn_pc = "start"
    /\ fn_pc' = "done"
    /\ fn_out' =
           [fn |-> "lookup",
            wind_score |->
                calculate_wind_score(fn_args.point[1], fn_args.point[2], fn_args.wind_data),
            capacity_factor_score |->
                calculate_capacity_factor_score(fn_args.point[1], fn_args.point[2],
                                                fn_args.wind_data),
            capacity_factor |->
                calculate_actual_capacity_factor(fn_args.point[1], fn_args.point[2],
                                                 fn_args.wind_data),
            variability_score |->
                calculate_wind_variability_score(fn_args.point[1], fn_args.point[2],
                                                 fn_args.wind_data)]
    /\ UNCHANGED fn_args

NextLookup == LookupScores /\ UNCHANGED <<kmVars, catVars, scanVars>>

SpecLookup == InitLookup /\ [][NextLookup]_vars

\* ======================================================================
\* determine_onshore_offshore_osm applied to one coordinate
\* ======================================================================
OsmLats == {5050, 5120, 5220, 5300, 5480, 5520, 5600}
OsmLons == {-1150, -1000, -750, -600, -450}

InitOsm ==
    /\ fn_pc = "start"
    /\ fn_args \in [lat : OsmLats, lon : OsmLons, remote : RemoteOutcomes]
    /\ fn_out = <<>>
    /\ cat_pc = "idle"
    /\ cat_a = <<>>
    /\ cat_b = <<>>
    /\ cat_ra = None
    /\ cat_rb = None
    /\ gdf = <<>>
    /\ n_clusters = DefaultNClusters
    /\ np_random_state = 0
    /\ km_pc = "idle"
    /\ centroids = None
    /\ labels = None
    /\ iters = 0
    /\ first_run = None
    /\ second_run = None
    /\ clustered = None
    /\ entry_states = <<>>
    /\ entry = "none"
    /\ grid_resolution = 0
    /\ min_wind_speed = 0
    /\ max_grid_distance = 0
    /\ weights = None
    /\ wind_farm_type = "none"
    /\ csv_exists = FALSE
    /\ era5_csv = <<>>
    /\ subs_file = <<>>
    /\ lines_file = <<>>
    /\ wind_farms_file = None
    /\ pc = "idle"
    /\ wind_data = None
    /\ subs = None
    /\ lines = None
    /\ existing_wind_farms = None
    /\ grid_points = <<>>
    /\ i = 0
    /\ grid_distance_cache = <<>>
    /\ results = <<>>
    /\ cluster_stats = None
    /\ raised = None
    /\ progress_callback = "None"
    /\ progress_log = <<>>

ClassifyOsm ==
    /\ fn_pc = "start"
    /\ fn_pc' = "done"
    /\ fn_out' = [fn |-> "osm",
                  location_type |->
                      determine_onshore_offshore_osm(fn_args.lat, fn_args.lon,
                                                     fn_args.remote)]
    /\ UNCHANGED fn_args

NextOsm == ClassifyOsm /\ UNCHANGED <<kmVars, catVars, scanVars>>

SpecOsm == InitOsm /\ [][NextOsm]_vars

\* ======================================================================
\* The distance cache of the scan with progress on a fine grid
\* ======================================================================
\* Coordinates are in 1/10000 degree and distances in metres here, so that
\* grid resolutions below 0.001 degree can be told apart.  The grid is the
\* beginning of its first row: the first MaxCachePoints points the loop
\* visits.
MaxCachePoints == 6
FineLatMin == 510000
FineLonMin == -110000
FineResolutions == {4, 8, 10, 16, 20, 100, 500}

\* f"{x:.3f}" as a number of thousandths; no coordinate of these grids is
\* half-way between two thousandths
FormatThree(x) == (x + 5) \div 10

\* cache_key = f"{lat:.3f}_{lon:.3f}"
cache_key(lat, lon) == <<FormatThree(lat), FormatThree(lon)>>

\* the first n points of the grid: lat_min with the first n longitudes
GridPrefix(resolution, n) ==
    [j \in 1..n |-> <<FineLatMin, FineLonMin + (j - 1) * resolution>>]

FineSubstations ==
    {<<<<510000, -109900>>>>, <<<<510030, -109990>>, <<510000, -109000>>>>}

InitCache ==
    /\ entry = "progress"
    /\ grid_resolution \in FineResolutions
    /\ min_wind_speed = 50000
    /\ max_grid_distance \in {1100, 100000}
    /\ subs_file \in FineSubstations
    /\ subs = subs_file
    /\ pc = "grid"
    /\ fn_pc = "idle"
    /\ fn_args = <<>>
    /\ fn_out = <<>>
    /\ cat_pc = "idle"
    /\ cat_a = <<>>
    /\ cat_b = <<>>
    /\ cat_ra = None
    /\ cat_rb = None
    /\ gdf = <<>>
    /\ n_clusters = DefaultNClusters
    /\ np_random_state = 0
    /\ km_pc = "idle"
    /\ centroids = None
    /\ labels = None
    /\ iters = 0
    /\ first_run = None
    /\ second_run = None
    /\ clustered = None
    /\ entry_states = <<>>
    /\ weights = None
    /\ wind_farm_type = "none"
    /\ csv_exists = FALSE
    /\ era5_csv = <<>>
    /\ lines_file = <<>>
    /\ wind_farms_file = None
    /\ wind_data = None
    /\ lines = None
    /\ existing_wind_farms = None
    /\ grid_points = <<>>
    /\ i = 0
    /\ grid_distance_cache = <<>>
    /\ results = <<>>
    /\ cluster_stats = None
    /\ raised = None
    /\ progress_callback = "None"
    /\ progress_log = <<>>

\* grid generation, as far as the loop will get
BuildGridPrefix ==
    /\ pc = "grid"
    /\ grid_points' = GridPrefix(grid_resolution, MaxCachePoints)
    /\ i' = 0
    /\ results' = <<>>
    /\ grid_distance_cache' = <<>>
    /\ pc' = "loop"
    /\ UNCHANGED <<scanInputs, wind_data, subs, lines, existing_wind_farms, cluster_stats,
                   raised, progress_log>>

\* one pass of the loop: the cached or computed distance, the feasibility
\* filter and the record; wind_speed = 5 + wind_score * 7 is never below the
\* min_wind_speed of 5 m/s, and only the record's coordinates and
\* grid_distance_km are kept
ScorePointCached ==
    /\ pc = "loop"
    /\ i < Len(grid_points)
    /\ LET lat == grid_points[i + 1][1]
           lon == grid_points[i + 1][2]
           key == cache_key(lat, lon)
           cached == key \in DOMAIN grid_distance_cache
           min_grid_dist == IF cached THEN grid_distance_cache[key]
                            ELSE MinPointDistance(subs, lat, lon)
       IN  /\ grid_distance_cache' =
                  IF cached THEN grid_distance_cache
                  ELSE (key :> min_grid_dist) @@ grid_distance_cache
           /\ results' =
                  IF min_grid_dist > max_grid_distance THEN results
                  ELSE Append(results, [latitude |-> lat, longitude |-> lon,
                                        grid_distance_km |-> min_grid_dist])
    /\ i' = i + 1
    /\ UNCHANGED <<scanInputs, pc, wind_data, subs, lines, existing_wind_farms,
                   grid_points, cluster_stats, raised, progress_log>>

NextCache ==
    \/ (BuildGridPrefix /\ UNCHANGED <<kmVars, catVars, fnVars>>)
    \/ (ScorePointCached /\ UNCHANGED <<kmVars, catVars, fnVars>>)

SpecCache == InitCache /\ [][NextCache]_vars

\* ======================================================================
\* The scoring functions and the power curve applied to one input
\* ======================================================================
\* The input is a number of tenths: a wind speed in 0.1 m/s for the wind
\* scores and the power curve, a distance in 0.1 km for the grid scores.
MaxInput == 460
ScoreInputs == ((-20)..MaxInput) \cup {1000, 2300, 5000, 10000}

\* a wind speed of `tenths` 0.1 m/s in the unit of wind_speed_10m
SpeedOfTenths(tenths) == tenths * 1000

InitScore ==
    /\ fn_pc = "start"
    /\ fn_args \in ScoreInputs
    /\ fn_out = <<>>
    /\ cat_pc = "idle"
    /\ cat_a = <<>>
    /\ cat_b = <<>>
    /\ cat_ra = None
    /\ cat_rb = None
    /\ gdf = <<>>
    /\ n_clusters = DefaultNClusters
    /\ np_random_state = 0
    /\ km_pc = "idle"
    /\ centroids = None
    /\ labels = None
    /\ iters = 0
    /\ first_run = None
    /\ second_run = None
    /\ clustered = None
    /\ entry_states = <<>>
    /\ entry = "none"
    /\ grid_resolution = 0
    /\ min_wind_speed = 0
    /\ max_grid_distance = 0
    /\ weights = None
    /\ wind_farm_type = "none"
    /\ csv_exists = FALSE
    /\ era5_csv = <<>>
    /\ subs_file = <<>>
    /\ lines_file = <<>>
    /\ wind_farms_file = None
    /\ pc = "idle"
    /\ wind_data = None
    /\ subs = None
    /\ lines = None
    /\ existing_wind_farms = None
    /\ grid_points = <<>>
    /\ i = 0
    /\ grid_distance_cache = <<>>
    /\ results = <<>>
    /\ cluster_stats = None
    /\ raised = None
    /\ progress_callback = "None"
    /\ progress_log = <<>>

\* the four wind-based scores of a candidate whose matched sample has the
\* speed fn_args
ScoreWind ==
    /\ fn_pc = "start"
    /\ fn_pc' = "done"
    /\ fn_out' = [fn |-> "wind",
                  wind_score |-> WindScoreOf(SpeedOfTenths(fn_args)),
                  capacity_factor_score |-> CFScoreOf(SpeedOfTenths(fn_args)),
                  capacity_factor |-> ActualCFOf(SpeedOfTenths(fn_args)),
                  variability_score |-> VariabilityScoreOf(SpeedOfTenths(fn_args))]
    /\ UNCHANGED fn_args

\* power_output(v) with the default turbine parameters
PowerOutput ==
    /\ fn_pc = "start"
    /\ fn_pc' = "done"
    /\ fn_out' = [fn |-> "power",
                  power |-> power_output(fn_args, CutIn, RatedSpeed, CutOut, RatedPower)]
    /\ UNCHANGED fn_args

\* calculate_grid_score and calculate_offshore_grid_score of a point whose
\* nearest substation or line is at the distance fn_args; the other of the
\* two is as far or farther
ScoreGrid ==
    /\ fn_pc = "start"
    /\ fn_args >= 0
    /\ fn_pc' = "done"
    /\ \E farther \in {fn_args, fn_args + 70}, subs_nearer \in BOOLEAN :
           LET min_subs_dist == IF subs_nearer THEN fn_args ELSE farther
               min_line_dist == IF subs_nearer THEN farther ELSE fn_args
           IN  fn_out' = [fn |-> "grid",
                          onshore |-> Clip(GridScoreOf(PyMin(min_subs_dist, min_line_dist))),
                          offshore |-> Clip(OffshoreGridScoreOf(fn_args))]
    /\ UNCHANGED fn_args

NextScore ==
    \/ (ScoreWind /\ UNCHANGED <<kmVars, catVars, scanVars>>)
    \/ (PowerOutput /\ UNCHANGED <<kmVars, catVars, scanVars>>)
    \/ (ScoreGrid /\ UNCHANGED <<kmVars, catVars, scanVars>>)

SpecScore == InitScore /\ [][NextScore]_vars

\* ======================================================================
\* Claims about clustering (SpecKM)
\* ======================================================================
RECURSIVE SumCounts(_, _)
SumCounts(stats, j) == IF j = 0 THEN 0 ELSE SumCounts(stats, j - 1) + stats[j].count

\* a = sa/na and b = sb/nb are the same number
SameRational(sa, na, sb, nb) == na > 0 /\ nb > 0 /\ sa * nb = sb * na
SameCentroid(c, d) ==
    \/ (c.n = 0 /\ d.n = 0)
    \/ (SameRational(c.sx, c.n, d.sx, d.n) /\ SameRational(c.sy, c.n, d.sy, d.n))

RECURSIVE SumAxis(_, _, _)
SumAxis(coords, axis, j) ==
    IF j = 0 THEN 0 ELSE SumAxis(coords, axis, j - 1) + coords[j][axis]

\* the arithmetic mean of all rows of gdf's coordinates
MeanOfAll ==
    [sx |-> SumAxis(CoordsOf(gdf), 1, Len(gdf)),
     sy |-> SumAxis(CoordsOf(gdf), 2, Len(gdf)),
     n  |-> Len(gdf)]

\* C7: after cluster_optimal_zones on a non-empty zone set every zone has one
\* cluster_id in 0..k-1, k = min(n_clusters, zone count); each summary row
\* counts exactly the zones of its cluster, no cluster has two rows, and the
\* rows' counts sum to the number of zones.
C7_ClustersPartitionZones ==
    (km_pc \in {"returned", "again"} /\ Len(gdf) > 0) =>
        LET k == Min(n_clusters, Len(gdf))
            ids == clustered.cluster_id
            stats == clustered.cluster_stats
        IN  /\ Len(ids) = Len(gdf)
            /\ \A j \in 1..Len(gdf) : ids[j] \in 0..(k - 1)
            /\ \A r \in 1..Len(stats) :
                   stats[r].count = Cardinality({j \in 1..Len(gdf) : ids[j] = stats[r].cluster_id})
            /\ \A r, q \in 1..Len(stats) :
                   stats[r].cluster_id = stats[q].cluster_id => r = q
            /\ SumCounts(stats, Len(stats)) = Len(gdf)

C7_Witness ==
    /\ km_pc = "returned"
    /\ Len(gdf) = 3
    /\ n_clusters = 2
    /\ Len(clustered.cluster_stats) = 2
    /\ clustered.cluster_stats[1].count = 2

\* C8 as stated: with k = 1 every label is 0 and the returned centroid is
\* exactly the arithmetic mean of the input.
C8_SingleCentroidIsExactMean ==
    (km_pc = "stats" /\ K = 1) =>
        /\ \A j \in 1..Len(gdf) : first_run.labels[j] = 0
        /\ SameCentroid(first_run.centroids[0], MeanOfAll)

\* C8 amended: with k = 1 every label is 0 and the returned centroid is the
\* arithmetic mean, except that when the seeded initial point already lies
\* within the tolerance of the mean (|c - mean| <= 1e-4 + 1e-5 |mean| on both
\* axes) the loop breaks in its first pass and that point is returned.
WithinTolerance(c, m) ==
    /\ c.n > 0
    /\ RTolInv * KMTolDen * Abs(c.sx * m.n - m.sx * c.n)
         <= RTolInv * c.n * m.n + KMTolDen * Abs(m.sx) * c.n
    /\ RTolInv * KMTolDen * Abs(c.sy * m.n - m.sy * c.n)
         <= RTolInv * c.n * m.n + KMTolDen * Abs(m.sy) * c.n

C8_SingleCentroidIsMeanWithinTolerance ==
    (km_pc = "stats" /\ K = 1) =>
        /\ \A j \in 1..Len(gdf) : first_run.labels[j] = 0
        /\ \/ SameCentroid(first_run.centroids[0], MeanOfAll)
           \/ /\ iters = 0
              /\ first_run.centroids[0].n = 1
              /\ WithinTolerance(first_run.centroids[0], MeanOfAll)

C8_Witness ==
    /\ km_pc = "stats"
    /\ K = 1
    /\ Len(gdf) = 3
    /\ iters = 1
    /\ first_run.centroids[0].n = 3
    /\ first_run.centroids[0].sx = 8

\* C9: a second call of simple_kmeans on the same array with the same
\* n_clusters returns the labels and centroids of the first, whatever used
\* the generator in between.
C9_KMeansDeterministic ==
    (km_pc = "again") =>
        /\ second_run.labels = first_run.labels
        /\ DOMAIN second_run.centroids = DOMAIN first_run.centroids
        /\ \A c \in DOMAIN first_run.centroids :
               SameCentroid(second_run.centroids[c], first_run.centroids[c])

C9_Witness ==
    /\ km_pc = "again"
    /\ Len(gdf) = 3
    /\ K = 2
    /\ entry_states[1] # entry_states[2]
    /\ second_run.labels[1] # second_run.labels[2]

\* C10: no centroid is ever nan, in any pass of the loop or in the result.
C10_NoCentroidUndefined ==
    (km_pc \in {"loop", "return", "stats"}) =>
        \A c \in DOMAIN centroids : ~IsNaNCentroid(centroids[c])

\* ======================================================================
\* Claims about categorize_zone (SpecCat)
\* ======================================================================
Categories == {"Excellent", "Good", "Moderate", "Marginal"}
Rank(cat) ==
    CASE cat = "Excellent" -> 3
      [] cat = "Good" -> 2
      [] cat = "Moderate" -> 1
      [] OTHER -> 0

MeetsExcellent(x) == x[1] >= 8000 /\ x[2] >= 85000 /\ x[3] <= 150
MeetsGood(x) == x[1] >= 6500 /\ x[2] >= 75000 /\ x[3] <= 250
MeetsModerate(x) == x[1] >= 4500 /\ x[2] >= 65000 /\ x[3] <= 350

CategoryAsSpecified(x, r) ==
    /\ r \in Categories
    /\ (r = "Excellent") <=> MeetsExcellent(x)
    /\ (r = "Good") <=> (~MeetsExcellent(x) /\ MeetsGood(x))
    /\ (r = "Moderate") <=> (~MeetsExcellent(x) /\ ~MeetsGood(x) /\ MeetsModerate(x))
    /\ (r = "Marginal") <=> (~MeetsExcellent(x) /\ ~MeetsGood(x) /\ ~MeetsModerate(x))

\* C4: categorize_zone returns exactly one of the four categories for every
\* input: Excellent iff composite >= 0.8, wind >= 8.5, distance <= 15; Good iff
\* not Excellent and composite >= 0.65, wind >= 7.5, distance <= 25; Moderate
\* iff neither and composite >= 0.45, wind >= 6.5, distance <= 35; Marginal
\* otherwise.
C4_CategorizeIsPriorityPartition ==
    (cat_pc = "done") =>
        /\ CategoryAsSpecified(cat_a, cat_ra)
        /\ CategoryAsSpecified(cat_b, cat_rb)

C4_Witness ==
    /\ cat_pc = "done"
    /\ cat_a = <<8000, 84999, 150>>
    /\ cat_ra = "Good"
    /\ cat_b = <<4499, 85000, 150>>
    /\ cat_rb = "Marginal"

\* C5: if the second input has composite and wind at least those of the
\* first and a grid distance at most that of the first, its category is
\* equal or better.
C5_CategorizeMonotonic ==
    (cat_pc = "done" /\ cat_b[1] >= cat_a[1] /\ cat_b[2] >= cat_a[2] /\ cat_b[3] <= cat_a[3]) =>
        Rank(cat_rb) >= Rank(cat_ra)

C5_Witness ==
    /\ cat_pc = "done"
    /\ cat_a = <<4500, 65000, 350>>
    /\ cat_b = <<8000, 85000, 150>>
    /\ cat_ra = "Moderate"
    /\ cat_rb = "Excellent"


\* ======================================================================
\* Properties of the scans (Spec)
\* ======================================================================
ScanRunning == pc \in {"loop", "cluster", "returned"}

HasZoneAt(p) ==
    \E j \in 1..Len(results) : results[j].latitude = p[1] /\ results[j].longitude = p[2]

\* C1: a scan retains a candidate grid point as a Zone exactly when the
\* speed of its nearest matched wind sample is >= min_wind_speed and its
\* grid distance is <= max_grid_distance; every other candidate leaves no
\* Zone record.
C1_RetainedExactlyWhenFeasible ==
    ScanRunning =>
        \A j \in 1..i :
            HasZoneAt(grid_points[j]) <=>
                /\ NearestWindSpeed(grid_points[j][1], grid_points[j][2], wind_data)
                       >= min_wind_speed
                /\ MinPointDistance(subs, grid_points[j][1], grid_points[j][2])
                       <= max_grid_distance

InUnitInterval(x) == x # NaN /\ 0 <= x /\ x <= Unit

\* C2: every score of every Zone record a scan returns (wind_score,
\* capacity_factor_score, capacity_factor, variability_score,
\* wind_composite_score, grid_score, environmental_score, composite_score)
\* lies in [0, 1].
C2_ReturnedScoresInUnitInterval ==
    pc = "returned" =>
        \A j \in 1..Len(results) :
            /\ InUnitInterval(results[j].wind_score)
            /\ InUnitInterval(results[j].capacity_factor_score)
            /\ InUnitInterval(results[j].capacity_factor)
            /\ InUnitInterval(results[j].variability_score)
            /\ InUnitInterval(results[j].wind_composite_score)
            /\ InUnitInterval(results[j].grid_score)
            /\ InUnitInterval(results[j].environmental_score)
            /\ InUnitInterval(results[j].composite_score)

\* C3: with weights that sum to zero the scan does not fail and its
\* composite scores are those of the default weights 0.5 / 0.3 / 0.2; with
\* any other weights the composite score is the weighted sum under
\* weights divided by their sum.
C3_ZeroWeightsFallBackToDefaults ==
    /\ raised # "ZeroDivisionError"
    /\ ScanRunning =>
           \A j \in 1..Len(results) :
               results[j].composite_score =
                   CompositeScore(IF TotalWeight(weights) = 0 THEN DefaultWeights
                                  ELSE weights,
                                  results[j].wind_composite_score,
                                  results[j].grid_score,
                                  results[j].environmental_score)

\* C6: a scan run with an explicit site type (Onshore or Offshore) returns
\* only Zones at coordinates that the site classifier puts in the requested
\* type; candidates of the other type are discarded, not relabelled.
C6_ExplicitTypeKeepsOnlyMatchingSites ==
    (pc = "returned" /\ wind_farm_type # "Auto-Detect") =>
        \A j \in 1..Len(results) :
            determine_onshore_offshore(results[j].latitude, results[j].longitude)
                = wind_farm_type


\* ======================================================================
\* Termination of simple_kmeans (SpecKMFair)
\* ======================================================================
\* every coordinate of every centroid moves by less than the tolerance
MovesLessThanTolerance(cents, new, k) ==
    \A c \in 0..(k - 1) :
        /\ ~IsNaNCentroid(cents[c])
        /\ ~IsNaNCentroid(new[c])
        /\ Abs(cents[c].sx * new[c].n - new[c].sx * cents[c].n) * KMTolDen
               < cents[c].n * new[c].n
        /\ Abs(cents[c].sy * new[c].n - new[c].sy * cents[c].n) * KMTolDen
               < cents[c].n * new[c].n

StopsWhenSettled ==
    (/\ km_pc = "loop"
     /\ MovesLessThanTolerance(centroids,
                               NewCentroids(CoordsOf(gdf),
                                            AssignLabels(CoordsOf(gdf), centroids, K), K),
                               K))
        => km_pc' = "return"

\* C11: simple_kmeans always terminates: the loop makes at most max_iters
\* passes, it leaves the loop in the pass in which every centroid coordinate
\* moves by less than the tolerance, and a call that entered the loop reaches
\* its return whether or not the centroids converge.
C11_KMeansTerminates ==
    /\ [](iters <= MaxIters /\ (km_pc = "loop" => iters < MaxIters))
    /\ [][StopsWhenSettled]_vars
    /\ ((km_pc = "loop") ~> (km_pc = "return"))

\* the loop ran to its bound without converging, and returned
C11_Witness ==
    /\ km_pc = "return"
    /\ iters = MaxIters
    /\ \E c \in DOMAIN centroids : IsNaNCentroid(centroids[c])


\* ======================================================================
\* Properties of grid generation (SpecGrid)
\* ======================================================================
GridBuilt == pc \in {"loop", "cluster", "returned"}

LatCount == ArangeLen(AnalysisBox(entry, wind_farm_type).lat_min,
                      AnalysisBox(entry, wind_farm_type).lat_max, grid_resolution)
LonCount == ArangeLen(AnalysisBox(entry, wind_farm_type).lon_min,
                      AnalysisBox(entry, wind_farm_type).lon_max, grid_resolution)

\* a coordinate with its rounding excess is not above the bound
NotAbove(x, excess, bound) == x < bound \/ (x = bound /\ excess = 0)

\* C12: every grid point of a scan lies inside the box the grid was asked
\* for on both axes; on each axis the coordinates are the lower bound plus a
\* whole number of steps, starting at the lower bound itself; the grid is a
\* finite sequence.
C12_GridPointsInsideBox ==
    GridBuilt =>
        LET box == AnalysisBox(entry, wind_farm_type)
        IN  /\ Len(grid_points) = LatCount * LonCount
            /\ \A j \in 1..Len(grid_points) :
                   /\ grid_points[j][1] = box.lat_min + ((j - 1) \div LonCount) * grid_resolution
                   /\ grid_points[j][2] = box.lon_min + ((j - 1) % LonCount) * grid_resolution
                   /\ grid_points[j][1] >= box.lat_min
                   /\ grid_points[j][2] >= box.lon_min
                   /\ NotAbove(grid_points[j][1], grid_points[j][3], box.lat_max)
                   /\ NotAbove(grid_points[j][2], grid_points[j][4], box.lon_max)


\* C13: when the scan mode is Offshore, whichever scan is called, no grid
\* point lies within the fixed margin (0.1 degree) of an edge of the
\* original box 51.0..55.5 by -11.0..-5.0.
C13_OffshoreGridKeepsMargin ==
    (GridBuilt /\ wind_farm_type = "Offshore") =>
        \A j \in 1..Len(grid_points) :
            /\ grid_points[j][1] >= 5100 + OffshoreBuffer
            /\ grid_points[j][2] >= -1100 + OffshoreBuffer
            /\ NotAbove(grid_points[j][1], grid_points[j][3], 5550 - OffshoreBuffer)
            /\ NotAbove(grid_points[j][2], grid_points[j][4], -500 - OffshoreBuffer)


\* ======================================================================
\* The two scans against each other (Spec)
\* ======================================================================
OtherScan == IF entry = "plain" THEN "progress" ELSE "plain"

\* a returned zone without the cluster label that only one scan adds
ZoneFields == {"latitude", "longitude", "wind_score", "capacity_factor_score",
               "capacity_factor", "variability_score", "wind_composite_score",
               "grid_score", "environmental_score", "composite_score", "wind_farm_type",
               "wind_speed_mps", "grid_distance_km", "grid_cost_eur", "zone_category"}
ReturnedZones == [j \in 1..Len(results) |-> [f \in ZoneFields |-> results[j][f]]]

\* C14: for the same parameters and the same data, calculate_optimal_zones
\* and calculate_optimal_zones_with_progress accept the same grid points and
\* give each the same scores, type, distance, cost and category.
C14_ScansAgree ==
    pc = "returned" => ReturnedZones = ScanZones(OtherScan)

\* every returned scan gives what its own loop, run in one piece, gives
ScanIsItsOwnLoop ==
    pc = "returned" => ReturnedZones = ScanZones(entry)


\* ======================================================================
\* The progress callback (Spec)
\* ======================================================================
\* What calculate_optimal_zones_with_progress does for the inputs of this
\* run when it is called without a callback, from the generator state 0 of a
\* fresh process.
SomePointAccepted ==
    \E j \in 1..Len(grid_points) :
        MeetsConstraints(DerivedWindSpeed(calculate_wind_score(grid_points[j][1],
                                                               grid_points[j][2],
                                                               wind_data)),
                         MinPointDistance(subs, grid_points[j][1], grid_points[j][2]),
                         min_wind_speed, max_grid_distance)

RaisedWithoutCallback ==
    IF ~csv_exists THEN "ValueError"
    ELSE IF TotalWeight(weights) = 0 /\ SomePointAccepted THEN "ZeroDivisionError"
    ELSE None

\* C15: the progress callback only observes: whatever callback is given,
\* calculate_optimal_zones_with_progress returns the zones and the cluster
\* summaries it returns without one, and raises only what it raises without
\* one; leaving the callback out causes no error of its own.
C15_CallbackOnlyObserves ==
    entry = "progress" =>
        /\ pc = "raised" => raised = RaisedWithoutCallback
        /\ pc = "returned" =>
               /\ raised = None
               /\ RaisedWithoutCallback = None
               /\ \E z \in {ScanZones("progress")} :
                  \E r \in {cluster_optimal_zones(z, DefaultNClusters, 0, ScanTolDen)} :
                      /\ results = [j \in 1..Len(z) |->
                                       z[j] @@ [cluster_id |-> r.cluster_id[j]]]
                      /\ cluster_stats = r.cluster_stats

\* a scan whose callback used the global generator returned clustered zones
C15_Witness ==
    /\ entry = "progress"
    /\ progress_callback = "uses_random"
    /\ pc = "returned"
    /\ Len(results) >= 2
    /\ Len(cluster_stats) >= 2
    /\ Len(progress_log) >= 10


CallbackGiven == entry = "progress" /\ progress_callback # "None"

\* C16: every completion fraction the callback is called with lies in
\* [0, 1], whatever the number of grid points (also one or none), and a
\* scan that returns has called it last with 1.0.
C16_ProgressFractionsInUnitInterval ==
    CallbackGiven =>
        /\ \A k \in 1..Len(progress_log) : 0 <= progress_log[k] /\ progress_log[k] <= Unit
        /\ pc = "returned" =>
               /\ Len(progress_log) > 0
               /\ progress_log[Len(progress_log)] = Unit

\* a scan over an empty grid returned, the callback having been told 1.0
C16_Witness ==
    /\ CallbackGiven
    /\ pc = "returned"
    /\ Len(grid_points) = 0
    /\ progress_log[Len(progress_log)] = Unit


\* ======================================================================
\* Failure and empty outcomes of the scans (Spec)
\* ======================================================================
\* C17: when the wind dataset is missing, a scan aborts with the error that
\* names the cause (ValueError "Wind data not found!") before any grid point
\* is evaluated, and returns neither zones nor cluster summaries.
C17_MissingWindDataAborts ==
    ~csv_exists =>
        /\ pc \in {"start", "raised"}
        /\ pc = "raised" => raised = "ValueError"
        /\ pc = "start" => raised = None
        /\ grid_points = <<>>
        /\ i = 0
        /\ results = <<>>
        /\ cluster_stats = None
        /\ \A k \in 1..Len(progress_log) : progress_log[k] = 500

\* a scan with progress reporting aborted on the missing file
C17_Witness ==
    /\ ~csv_exists
    /\ entry = "progress"
    /\ pc = "raised"
    /\ raised = "ValueError"


\* C18: if min_wind_speed is above the wind speed of every sample of the
\* wind dataset, the scan accepts no Zone, returns an empty list of cluster
\* summaries and raises no error.
C18_ThresholdAboveAllSamplesGivesNothing ==
    (/\ csv_exists
     /\ pc # "start"
     /\ \A k \in 1..Len(wind_data) : wind_data[k].wind_speed_10m < min_wind_speed)
        => /\ results = <<>>
           /\ pc # "raised"
           /\ cluster_stats = <<>>

WindOnly == [wind |-> 1, grid |-> 0, environmental |-> 0]

\* C19: with weights {wind: 1, grid: 0, environmental: 0} the composite_score
\* of every zone equals its wind_composite_score exactly, whatever its
\* grid_score and environmental_score are.
C19_WindOnlyWeightsGiveWindComposite ==
    ScanRunning =>
        \A j \in 1..Len(results) :
            /\ weights = WindOnly =>
                   results[j].composite_score = results[j].wind_composite_score
            /\ CompositeScore(WindOnly, results[j].wind_composite_score,
                              results[j].grid_score,
                              results[j].environmental_score)
                   = results[j].wind_composite_score

\* a wind-only scan has returned a zone whose grid and environmental scores
\* both differ from its wind composite
C19_Witness ==
    /\ pc = "returned"
    /\ weights = WindOnly
    /\ \E j \in 1..Len(results) :
           /\ results[j].grid_score # results[j].wind_composite_score
           /\ results[j].environmental_score # results[j].wind_composite_score
           /\ results[j].grid_score # results[j].environmental_score
           /\ results[j].composite_score = results[j].wind_composite_score

\* nonnegative weights with a positive sum, as the dashboard sliders and the
\* callers give them (tenths)
ConvexWeights ==
    {w \in [wind : 0..3, grid : 0..3, environmental : 0..3] : TotalWeight(w) > 0}
        \cup {DefaultWeights}

Min3(a, b, c) == Min(a, Min(b, c))
Max3(a, b, c) == Max(a, Max(b, c))

Between(x, a, b, c) == Min3(a, b, c) <= x /\ x <= Max3(a, b, c)

\* C20: for nonnegative weights with positive sum, composite_score lies
\* between the minimum and the maximum of wind_composite_score, grid_score
\* and environmental_score, where wind_composite_score is
\* 0.7 * wind_score + 0.3 * variability_score.
C20_CompositeIsConvexCombination ==
    ScanRunning =>
        \A j \in 1..Len(results) :
            /\ results[j].wind_composite_score =
                   WindComposite(results[j].wind_score, results[j].variability_score)
            /\ TotalWeight(weights) > 0 =>
                   Between(results[j].composite_score,
                           results[j].wind_composite_score,
                           results[j].grid_score,
                           results[j].environmental_score)
            /\ \A w \in ConvexWeights :
                   Between(CompositeScore(w, results[j].wind_composite_score,
                                          results[j].grid_score,
                                          results[j].environmental_score),
                           results[j].wind_composite_score,
                           results[j].grid_score,
                           results[j].environmental_score)

\* a scan with the default weights has returned a zone whose composite lies
\* strictly inside the range of three different sub-scores, all below 1
C20_Witness ==
    /\ pc = "returned"
    /\ weights = DefaultWeights
    /\ \E j \in 1..Len(results) :
           /\ Max3(results[j].wind_composite_score, results[j].grid_score,
                   results[j].environmental_score) < Unit
           /\ Min3(results[j].wind_composite_score, results[j].grid_score,
                   results[j].environmental_score) < results[j].composite_score
           /\ results[j].composite_score
                  < Max3(results[j].wind_composite_score, results[j].grid_score,
                         results[j].environmental_score)

\* ======================================================================
\* Claims about the scoring functions (SpecScore)
\* ======================================================================
WindScored == fn_pc = "done" /\ fn_out.fn = "wind"

\* C21: wind_score is non-decreasing in the matched wind speed, is 0 for
\* every speed below 6 m/s, 1 for every speed at or above 10 m/s and 0.5 at
\* 8 m/s.
C21_WindScoreShape ==
    WindScored =>
        /\ fn_args < 60 => fn_out.wind_score = 0
        /\ fn_args >= 100 => fn_out.wind_score = Unit
        /\ fn_args = 80 => fn_out.wind_score = Unit \div 2
        /\ \A u \in ScoreInputs :
               u <= fn_args => WindScoreOf(SpeedOfTenths(u)) <= fn_out.wind_score

\* the score of a speed on the sigmoid, strictly between the two plateaus
C21_Witness ==
    /\ WindScored
    /\ fn_args = 80
    /\ fn_out.wind_score = Unit \div 2
    /\ WindScoreOf(SpeedOfTenths(59)) = 0
    /\ WindScoreOf(SpeedOfTenths(100)) = Unit

PowerComputed == fn_pc = "done" /\ fn_out.fn = "power"

\* C22: with the default turbine parameters power_output(v) is 0 for every
\* v <= 3 and every v >= 25, equals rated_power for 12 <= v < 25, and is
\* strictly increasing in v from the cut-in speed to the rated speed.
C22_PowerCurveShape ==
    PowerComputed =>
        /\ fn_args <= CutIn => fn_out.power = 0
        /\ fn_args >= CutOut => fn_out.power = 0
        /\ (RatedSpeed <= fn_args /\ fn_args < CutOut) => fn_out.power = RatedPower
        /\ \A u \in ScoreInputs :
               (CutIn <= u /\ u < fn_args /\ fn_args <= RatedSpeed) =>
                   power_output(u, CutIn, RatedSpeed, CutOut, RatedPower) < fn_out.power

\* a speed on the ramp, with less than the rated power and more than the
\* speed just below it; the power just below the cut-out and at it
C22_Witness ==
    /\ PowerComputed
    /\ fn_args = 75
    /\ 0 < fn_out.power
    /\ fn_out.power < RatedPower
    /\ power_output(74, CutIn, RatedSpeed, CutOut, RatedPower) < fn_out.power
    /\ power_output(249, CutIn, RatedSpeed, CutOut, RatedPower) = RatedPower
    /\ power_output(250, CutIn, RatedSpeed, CutOut, RatedPower) = 0

\* ======================================================================
\* Claims about the capacity factor estimate (SpecCF)
\* ======================================================================
CFComputed == fn_pc = "done" /\ fn_out.fn = "cf"

\* every dispatch-down fraction of the input is in [0, 1]
DispatchDownInRange(dd) ==
    \/ dd.kind = "none"
    \/ dd.kind = "scalar" /\ 0 <= dd.value /\ dd.value <= 10
    \/ dd.kind = "array" /\ \A h \in DOMAIN dd.value : 0 <= dd.value[h] /\ dd.value[h] <= 10

\* C23: compute_cf_2019 returns a capacity factor in [0, 0.55] for every
\* non-empty hourly series and every dispatch-down input (none, a scalar, a
\* per-hour array), and with dispatch-down fractions in [0, 1] the result is
\* never greater than the result without dispatch-down.
C23_CapacityFactorBounded ==
    CFComputed =>
        /\ 0 <= fn_out.cf
        /\ fn_out.cf <= MaxCF
        /\ DispatchDownInRange(fn_args.dd_fraction) =>
               fn_out.cf <= compute_cf_2019(fn_args.wind_series, RatedPower, NoDispatchDown)

\* a per-hour dispatch-down in [0, 1] has lowered an estimate that is below
\* the clamp
C23_Witness ==
    /\ CFComputed
    /\ fn_args.dd_fraction.kind = "array"
    /\ DispatchDownInRange(fn_args.dd_fraction)
    /\ 0 < fn_out.cf
    /\ fn_out.cf < compute_cf_2019(fn_args.wind_series, RatedPower, NoDispatchDown)
    /\ compute_cf_2019(fn_args.wind_series, RatedPower, NoDispatchDown) < MaxCF

\* C24: for every finite matched wind speed, negative ones included,
\* calculate_wind_score, calculate_capacity_factor_score,
\* calculate_actual_capacity_factor and calculate_wind_variability_score
\* each return a defined number in [0, 1].
C24_WindScoresTotal ==
    WindScored =>
        /\ InUnitInterval(fn_out.wind_score)
        /\ InUnitInterval(fn_out.capacity_factor_score)
        /\ InUnitInterval(fn_out.capacity_factor)
        /\ InUnitInterval(fn_out.variability_score)

\* ======================================================================
\* Claims about the wind lookup (SpecLookup)
\* ======================================================================
LookedUp == fn_pc = "done" /\ fn_out.fn = "lookup"

\* row a of the dataset is at the minimal distance from the query point and
\* no row before it is
FirstNearest(a) ==
    LET wd == fn_args.wind_data
        lat == fn_args.point[1]
        lon == fn_args.point[2]
    IN  /\ \A j \in 1..Len(wd) : SampleDist2(wd[a], lat, lon) <= SampleDist2(wd[j], lat, lon)
        /\ \A j \in 1..(a - 1) : SampleDist2(wd[a], lat, lon) < SampleDist2(wd[j], lat, lon)

\* C25: every wind-based score uses the speed of the sample at the minimal
\* Euclidean distance in (latitude, longitude) from the query point, the
\* first one in dataset order when several are at that distance, and the four
\* scores of one candidate use the same sample.
C25_ScoresUseFirstNearestSample ==
    LookedUp =>
        \E a \in 1..Len(fn_args.wind_data) :
            /\ FirstNearest(a)
            /\ fn_out.wind_score = WindScoreOf(fn_args.wind_data[a].wind_speed_10m)
            /\ fn_out.capacity_factor_score = CFScoreOf(fn_args.wind_data[a].wind_speed_10m)
            /\ fn_out.capacity_factor = ActualCFOf(fn_args.wind_data[a].wind_speed_10m)
            /\ fn_out.variability_score
                   = VariabilityScoreOf(fn_args.wind_data[a].wind_speed_10m)

\* two samples of different speed are at the same minimal distance, after a
\* farther one, and the scores are those of the first of the two
C25_Witness ==
    /\ LookedUp
    /\ Len(fn_args.wind_data) = 3
    /\ FirstNearest(2)
    /\ SampleDist2(fn_args.wind_data[3], fn_args.point[1], fn_args.point[2])
           = SampleDist2(fn_args.wind_data[2], fn_args.point[1], fn_args.point[2])
    /\ fn_args.wind_data[3].wind_speed_10m = 90000
    /\ fn_args.wind_data[2].wind_speed_10m = 65000
    /\ fn_out.wind_score = WindScoreOf(65000)
    /\ fn_out.variability_score = VariabilityScoreOf(65000)

\* ======================================================================
\* Claims about the remote site classification (SpecOsm)
\* ======================================================================
OsmClassified == fn_pc = "done" /\ fn_out.fn = "osm"

\* the remote lookup raised, timed out or answered without success
RemoteFailed == fn_args.remote \in {"raises", "timeout", "non_success"}

\* C26: whenever the remote lookup raises, times out or answers with a
\* non-success response, determine_onshore_offshore_osm returns exactly what
\* determine_onshore_offshore_simple returns for the coordinate.
C26_RemoteFailureFallsBack ==
    (OsmClassified /\ RemoteFailed) =>
        fn_out.location_type = determine_onshore_offshore_simple(fn_args.lat, fn_args.lon)

GridScored == fn_pc = "done" /\ fn_out.fn = "grid"

\* the steepest slope of both scores: 0.3 in 10 km, for 0.1 km
GridStep == 30

\* `score` is the value at fn_args of the curve f with breakpoints b1, b2,
\* b3: 1.0 up to b1, 0.7 at b2, 0.3 at b3, positive and at most 0.3 beyond,
\* never increasing, without a jump to the next distance
GridShape(score, f(_), b1, b2, b3) ==
    /\ fn_args <= b1 => score = Unit
    /\ fn_args = b2 => score = 7000
    /\ fn_args = b3 => score = 3000
    /\ fn_args > b3 => (0 < score /\ score <= 3000)
    /\ \A u \in ScoreInputs : (0 <= u /\ u <= fn_args) => Clip(f(u)) >= score
    /\ fn_args < MaxInput =>
           (/\ score - Clip(f(fn_args + 1)) <= GridStep
            /\ score - Clip(f(fn_args + 1)) >= 0)

\* C27: the onshore grid_score is a function of the distance d to the
\* nearest substation or line that is 1.0 for d <= 5, never increases, is
\* continuous at the breakpoints (1.0 at 5, 0.7 at 15, 0.3 at 30) and stays
\* positive and at most 0.3 beyond 30; the offshore grid_score has the same
\* shape with the breakpoints 10, 20 and 40.
C27_GridScoreShape ==
    GridScored =>
        /\ GridShape(fn_out.onshore, GridScoreOf, 50, 150, 300)
        /\ GridShape(fn_out.offshore, OffshoreGridScoreOf, 100, 200, 400)

\* a distance in the tail of both curves, 230 km, with scores that are
\* positive and below the resolution of the table
C27_Witness ==
    /\ GridScored
    /\ fn_args = 2300
    /\ fn_out.onshore = 1
    /\ fn_out.offshore = 1
    /\ Clip(GridScoreOf(150)) = 7000
    /\ Clip(GridScoreOf(151)) < 7000
    /\ Clip(OffshoreGridScoreOf(401)) < 3000

\* ======================================================================
\* Consistency of the labels and centroids simple_kmeans returns (SpecKM)
\* ======================================================================
\* C28: on return from simple_kmeans every point's label is the index of
\* the returned centroid nearest to it (the first index on ties), whether
\* the loop stopped by convergence or because max_iters was reached.
C28_LabelsMatchReturnedCentroids ==
    km_pc = "stats" =>
        first_run.labels = AssignLabels(CoordsOf(gdf), first_run.centroids, K)

\* a return by convergence has labels that match its centroids
C28_ConvergedLabelsMatch ==
    (km_pc = "stats" /\ iters < MaxIters) =>
        first_run.labels = AssignLabels(CoordsOf(gdf), first_run.centroids, K)

\* ======================================================================
\* Order of the progress reports (Spec)
\* ======================================================================
\* C29: within one run of the scan with progress the completion fractions
\* passed to the callback never decrease in call order, from the first call
\* (0.05) to the last (1.0).
C29_ProgressNeverDecreases ==
    CallbackGiven =>
        /\ Len(progress_log) > 0 => progress_log[1] = 500
        /\ \A k \in 1..(Len(progress_log) - 1) : progress_log[k] <= progress_log[k + 1]

\* ======================================================================
\* The distance cache (SpecCache)
\* ======================================================================
\* the grid distance the scan used for the point p is its own: p passed the
\* filter exactly when its own distance allows it, and its record stores it
UsedOwnDistance(p) ==
    /\ HasZoneAt(p) <=> MinPointDistance(subs, p[1], p[2]) <= max_grid_distance
    /\ \A j \in 1..Len(results) :
           (results[j].latitude = p[1] /\ results[j].longitude = p[2]) =>
               results[j].grid_distance_km = MinPointDistance(subs, p[1], p[2])

\* C30: in the scan with progress, for every grid point and every
\* grid_resolution, the grid distance used by the feasibility filter and
\* stored in grid_distance_km is the distance from that very point to its
\* nearest substation: the cache never hands a point the distance of another.
C30_CacheKeepsPointsApart ==
    pc = "loop" => \A j \in 1..i : UsedOwnDistance(grid_points[j])

\* the same for grid resolutions of 0.001 degree and more
CacheKeepsPointsApartFromThousandth ==
    (pc = "loop" /\ grid_resolution >= 10) => \A j \in 1..i : UsedOwnDistance(grid_points[j])

====
